---- MODULE Spec2Model ----
(***************************************************************************)
(* Model of the PHP parser of src/src/parser/mod.rs: the top-level loop    *)
(* (parse), top_level_statement, statement, the Pratt expression engine    *)
(* (expression / postfix) and the precedence table of                      *)
(* src/trunk_parser/src/parser/precedence.rs.                              *)
(*                                                                         *)
(* A token is a record [kind, v]; the span of a token is its index in the  *)
(* token sequence.  Every recognizer is an operator that takes the token   *)
(* sequence and the cursor and returns a result record                     *)
(*   [st, pos, val, err, lost]                                             *)
(* st = "ok" (Ok(val)), "err" (Err(err)), "panic" (unimplemented!/todo!)   *)
(* or "unmodelled" (the recognizer lives outside the modelled files); pos  *)
(* is the cursor the recognizer leaves behind.                             *)
(***************************************************************************)
EXTENDS Integers, Sequences, FiniteSets, TLC

VARIABLES tokens, pos, ast, starts, ends, comments, status, error, raised

vars == <<tokens, pos, ast, starts, ends, comments, status, error, raised>>

\* ------------------------------------------------------------------------
\* Tokens and parser state
\* ------------------------------------------------------------------------

Tok(k) == [kind |-> k, v |-> ""]

TokV(k, x) == [kind |-> k, v |-> x]

EofTok == Tok("Eof")

\* state.current (p) and state.peek (p + 1): past the end the lexer's
\* sentinel Eof stays current.
Cur(toks, p) == IF p <= Len(toks) THEN toks[p] ELSE EofTok

Kind(toks, p) == Cur(toks, p).kind

is_eof(toks, p) == Kind(toks, p) = "Eof"

CommentKinds == {"SingleLineComment", "MultiLineComment", "HashMarkComment", "DocumentComment"}

RECURSIVE skip_comments(_, _)
skip_comments(toks, p) ==
    IF Kind(toks, p) \in CommentKinds THEN skip_comments(toks, p + 1) ELSE p

\* gather_comments advances exactly as skip_comments does and keeps the
\* comment tokens it passed in the pending buffer.
gather_comments(toks, p) == skip_comments(toks, p)

GatheredComments(toks, p) == [i \in 1..(skip_comments(toks, p) - p) |-> toks[p + i - 1]]

\* ------------------------------------------------------------------------
\* Results and errors
\* ------------------------------------------------------------------------

None == [t |-> "None"]

NoErr == [e |-> "None", text |-> "", span |-> 0]

Ok(p, x) == [st |-> "ok", pos |-> p, val |-> x, err |-> NoErr, lost |-> <<>>]

Err(p, e) == [st |-> "err", pos |-> p, val |-> None, err |-> e, lost |-> <<>>]

Panic(p) == [st |-> "panic", pos |-> p, val |-> None, err |-> NoErr, lost |-> <<>>]

Unmodelled(p) == [st |-> "unmodelled", pos |-> p, val |-> None, err |-> NoErr, lost |-> <<>>]

UnexpectedToken(toks, p) == [e |-> "UnexpectedToken", text |-> Kind(toks, p), span |-> p]

ExpectedToken(what, p) == [e |-> "ExpectedToken", text |-> what, span |-> p]

UnexpectedEndOfFile == [e |-> "UnexpectedEndOfFile", text |-> "", span |-> 0]

\* utils::skip and its named variants (skip_semicolon, skip_double_arrow,
\* colon, ...): consume the required token or fail without moving.
skip(toks, p, k) ==
    IF Kind(toks, p) = k THEN Ok(p + 1, None) ELSE Err(p, ExpectedToken(k, p))

\* ------------------------------------------------------------------------
\* Identifier recognizers (ident.rs)
\* ------------------------------------------------------------------------

ident(toks, p) ==
    IF Kind(toks, p) = "Identifier"
    THEN Ok(p + 1, Cur(toks, p).v)
    ELSE Err(p, ExpectedToken("an identifier", p))

full_name(toks, p) ==
    IF Kind(toks, p) \in {"Identifier", "QualifiedIdentifier", "FullyQualifiedIdentifier"}
    THEN Ok(p + 1, Cur(toks, p).v)
    ELSE Err(p, ExpectedToken("an identifier", p))

var(toks, p) ==
    IF Kind(toks, p) = "Variable"
    THEN Ok(p + 1, Cur(toks, p).v)
    ELSE Err(p, ExpectedToken("a variable", p))

name(toks, p) ==
    IF Kind(toks, p) \in {"Identifier", "QualifiedIdentifier"}
    THEN Ok(p + 1, Cur(toks, p).v)
    ELSE Err(p, ExpectedToken("an identifier", p))

\* `self.current.kind.to_string()` is the keyword's text.
full_name_maybe_type_keyword(toks, p) ==
    IF Kind(toks, p) \in {"Array", "Callable"}
    THEN Ok(p + 1, Kind(toks, p))
    ELSE full_name(toks, p)

type_with_static(toks, p) ==
    IF Kind(toks, p) = "Static"
    THEN Ok(p + 1, "static")
    ELSE full_name_maybe_type_keyword(toks, p)

ReservedKinds ==
    {"Static", "Abstract", "Final", "For", "Private", "Protected", "Public", "Require",
     "RequireOnce", "New", "Clone", "If", "Else", "ElseIf", "Default", "Enum", "Match",
     "Catch", "Finally", "Namespace"}

ident_maybe_reserved_NoNext(toks, p) ==
    IF Kind(toks, p) \in ReservedKinds
    THEN Ok(p, Kind(toks, p))
    ELSE ident(toks, p)

ident_maybe_reserved(toks, p) ==
    IF Kind(toks, p) \in ReservedKinds
    THEN Ok(p + 1, Kind(toks, p))
    ELSE ident(toks, p)

IdentOps ==
    {"ident", "name", "full_name", "var", "ident_maybe_reserved",
     "full_name_maybe_type_keyword", "type_with_static"}

IdentOp(op, toks, p) ==
    CASE op = "ident" -> ident(toks, p)
      [] op = "name" -> name(toks, p)
      [] op = "full_name" -> full_name(toks, p)
      [] op = "var" -> var(toks, p)
      [] op = "ident_maybe_reserved" -> ident_maybe_reserved(toks, p)
      [] op = "full_name_maybe_type_keyword" -> full_name_maybe_type_keyword(toks, p)
      [] op = "type_with_static" -> type_with_static(toks, p)

\* ------------------------------------------------------------------------
\* Precedence table (precedence.rs)
\* ------------------------------------------------------------------------

\* The enum in declaration order: #[derive(PartialOrd, Ord)] orders the
\* classes by their position in this list.
Precedence ==
    << "Lowest", "CloneOrNew", "Pow", "Prefix", "Instanceof", "Bang",
       "MulDivMod", "AddSub", "BitShift", "Concat", "LtGt", "Equality",
       "BitwiseAnd", "BitwiseXor", "BitwiseOr", "And", "Or", "NullCoalesce",
       "Ternary", "Assignment", "YieldFrom", "Yield", "Print", "KeyAnd",
       "KeyXor", "KeyOr", "CallDim", "ObjectAccess", "IncDec" >>

PrecOrd(c) == CHOOSE i \in 1..Len(Precedence) : Precedence[i] = c

PrecLt(a, b) == PrecOrd(a) < PrecOrd(b)

Precedence_prefix(kind) ==
    CASE kind = "Bang" -> "Bang"
      [] kind \in {"Clone", "New"} -> "CloneOrNew"
      [] OTHER -> "Prefix"

\* "unimplemented" stands for the unimplemented!() arm.
Precedence_infix(kind) ==
    CASE kind = "Pow" -> "Pow"
      [] kind = "Instanceof" -> "Instanceof"
      [] kind \in {"Asterisk", "Slash", "Percent"} -> "MulDivMod"
      [] kind \in {"Plus", "Minus"} -> "AddSub"
      [] kind \in {"LeftShift", "RightShift"} -> "BitShift"
      [] kind = "Dot" -> "Concat"
      [] kind \in {"LessThan", "LessThanEquals", "GreaterThan", "GreaterThanEquals"} -> "LtGt"
      [] kind \in {"DoubleEquals", "BangEquals", "TripleEquals", "BangDoubleEquals"} -> "Equality"
      [] kind = "Ampersand" -> "BitwiseAnd"
      [] kind = "Caret" -> "BitwiseXor"
      [] kind = "Pipe" -> "BitwiseOr"
      [] kind = "BooleanAnd" -> "And"
      [] kind = "BooleanOr" -> "Or"
      [] kind = "Coalesce" -> "NullCoalesce"
      [] kind = "Question" -> "Ternary"
      [] kind \in {"Equals", "PlusEquals", "MinusEquals", "AsteriskEqual", "PowEquals",
                   "SlashEquals", "DotEquals", "AndEqual", "CoalesceEqual"} -> "Assignment"
      [] kind = "Yield" -> "Yield"
      [] OTHER -> "unimplemented"

Precedence_postfix(kind) ==
    CASE kind = "Coalesce" -> "NullCoalesce"
      [] kind \in {"Increment", "Decrement"} -> "IncDec"
      [] kind \in {"LeftParen", "LeftBracket"} -> "CallDim"
      [] kind \in {"Arrow", "NullsafeArrow", "DoubleColon"} -> "ObjectAccess"
      [] OTHER -> "unimplemented"

associativity(c) ==
    CASE c \in {"Instanceof", "MulDivMod", "AddSub", "BitShift", "Concat", "BitwiseAnd",
                "BitwiseOr", "BitwiseXor", "And", "Or", "KeyAnd", "KeyOr", "KeyXor"} -> "Left"
      [] c \in {"Pow", "NullCoalesce", "Assignment"} -> "Right"
      [] c \in {"Ternary", "Equality", "LtGt"} -> "Non"
      [] OTHER -> "None"

is_prefix(kind) ==
    kind \in {"Bang", "Print", "BitwiseNot", "Decrement", "Increment", "Minus", "Plus",
              "StringCast", "BinaryCast", "ObjectCast", "BoolCast", "BooleanCast",
              "IntCast", "IntegerCast", "FloatCast", "DoubleCast", "RealCast",
              "UnsetCast", "ArrayCast", "At"}

is_infix(kind) ==
    kind \in {"Pow", "RightShiftEquals", "LeftShiftEquals", "CaretEquals", "AmpersandEquals",
              "PipeEquals", "PercentEquals", "PowEquals", "LogicalAnd", "LogicalOr",
              "LogicalXor", "Spaceship", "LeftShift", "RightShift", "Ampersand", "Pipe",
              "Caret", "Percent", "Instanceof", "Asterisk", "Slash", "Plus", "Minus", "Dot",
              "LessThan", "GreaterThan", "LessThanEquals", "GreaterThanEquals",
              "DoubleEquals", "TripleEquals", "BangEquals", "BangDoubleEquals",
              "AngledLeftRight", "Question", "QuestionColon", "BooleanAnd", "BooleanOr",
              "Equals", "PlusEquals", "MinusEquals", "DotEquals", "CoalesceEqual",
              "AsteriskEqual", "SlashEquals"}

is_postfix(kind) ==
    kind \in {"Increment", "Decrement", "LeftParen", "LeftBracket", "Arrow",
              "NullsafeArrow", "DoubleColon", "Coalesce"}

\* ------------------------------------------------------------------------
\* Expression engine (mod.rs, expression / postfix)
\* ------------------------------------------------------------------------

\* State::new: no class is being parsed at the top level.
has_class_scope == FALSE

has_class_parent_scope == FALSE

CastKinds ==
    {"StringCast", "BinaryCast", "ObjectCast", "BoolCast", "BooleanCast", "IntCast",
     "IntegerCast", "FloatCast", "DoubleCast", "RealCast", "UnsetCast", "ArrayCast"}

prefix(op, rhs) ==
    CASE op = "Print" -> [t |-> "Print", value |-> rhs]
      [] op = "Bang" -> [t |-> "BooleanNot", value |-> rhs]
      [] op = "Minus" -> [t |-> "Negate", value |-> rhs]
      [] op = "Plus" -> [t |-> "UnaryPlus", value |-> rhs]
      [] op = "BitwiseNot" -> [t |-> "BitwiseNot", value |-> rhs]
      [] op = "Decrement" -> [t |-> "PreDecrement", value |-> rhs]
      [] op = "Increment" -> [t |-> "PreIncrement", value |-> rhs]
      [] op \in CastKinds -> [t |-> "Cast", kind |-> op, value |-> rhs]
      [] op = "At" -> [t |-> "ErrorSuppress", value |-> rhs]

infix(lhs, op, rhs, by_ref) ==
    [t |-> "Infix", lhs |-> lhs,
     op |-> IF op = "Equals" /\ by_ref THEN "AssignRef" ELSE op,
     rhs |-> rhs]

CannotFindTypeInCurrentScope(toks, p) ==
    [e |-> "CannotFindTypeInCurrentScope", text |-> Kind(toks, p), span |-> p]

MatchExpressionWithMultipleDefaultArms(p) ==
    [e |-> "MatchExpressionWithMultipleDefaultArms", text |-> "", span |-> p]

\* lines 636, 648 and 660: `if !state.has_class_scope`
ScopeMissing_Unchecked(flag) == FALSE

ScopeMissing(flag) == ~flag

\* line 721: `if default.is_some()`
DefaultAlreadySeen_NoCheck(default) == FALSE

DefaultAlreadySeen(default) == default.t # "None"

\* line 741: `while state.current.kind != TokenKind::DoubleArrow`
MoreConditions_NoTrailingComma(kind) == TRUE

MoreConditions(kind) == kind # "DoubleArrow"

\* line 751: `if !conditions.is_empty()`
ConditionsPresent(conditions) == conditions # <<>>

\* The `?` operator: an Err (or a panic) of r is returned at once, otherwise
\* the rest of the function runs on r.
Then(r, K(_)) == IF r.st # "ok" THEN r ELSE K(r)

\* lines 232-234 and 537-539: the error carries `state.current.span`.
ExpectedItemDefinitionAfterAttributes_AttributeSpan(p) ==
    [e |-> "ExpectedItemDefinitionAfterAttributes", text |-> "", span |-> p - 1]

ExpectedItemDefinitionAfterAttributes(p) ==
    [e |-> "ExpectedItemDefinitionAfterAttributes", text |-> "", span |-> p]

RECURSIVE AttributeItems(_, _)
RECURSIVE gather_attributes(_, _)

\* The attributes of one group `#[Name, ...]`, up to its `]`.  Attribute
\* arguments are recognized by args_list, outside this model.
AttributeItems(toks, p) ==
    IF Kind(toks, p) = "RightBracket" THEN Ok(p, None)
    ELSE Then(full_name(toks, p), LAMBDA n :
         IF Kind(toks, n.pos) = "LeftParen" THEN Unmodelled(n.pos)
         ELSE IF Kind(toks, n.pos) = "Comma" THEN AttributeItems(toks, n.pos + 1)
         ELSE Ok(n.pos, None))

\* Consumes zero or more attribute groups into the pending list; the value
\* tells whether any group was gathered.
gather_attributes(toks, p) ==
    IF Kind(toks, p) # "Attribute" THEN Ok(p, FALSE)
    ELSE Then(AttributeItems(toks, p + 1), LAMBDA items :
         Then(skip(toks, items.pos, "RightBracket"), LAMBDA rb :
         Then(gather_attributes(toks, rb.pos), LAMBDA more :
         Ok(more.pos, TRUE))))

RECURSIVE expression(_, _, _)
RECURSIVE PrefixPhase(_, _)
RECURSIVE ArrayItems(_, _, _)
RECURSIVE InfixLoop(_, _, _, _)
RECURSIVE postfix(_, _, _, _)
RECURSIVE MatchExpression(_, _)
RECURSIVE MatchArms(_, _, _, _)
RECURSIVE MatchConditions(_, _, _)
RECURSIVE ArgsRest(_, _, _)
RECURSIVE StringParts(_, _, _, _)

\* lines 740-749: the condition list of one conditional arm.
MatchConditions(toks, p, conditions) ==
    IF MoreConditions(Kind(toks, p))
    THEN Then(expression(toks, p, "Lowest"), LAMBDA c :
            IF Kind(toks, c.pos) = "Comma"
            THEN MatchConditions(toks, c.pos + 1, Append(conditions, c.val))
            ELSE Ok(c.pos, Append(conditions, c.val)))
    ELSE Ok(p, conditions)

\* lines 718-766: one arm with the cursor at p, past the comments; the loop
\* then goes on after a comma and ends without one.
MatchArm(toks, p, default, arms) ==
    IF Kind(toks, p) = "Default"
    THEN IF DefaultAlreadySeen(default)
         THEN Err(p, MatchExpressionWithMultipleDefaultArms(p))
         ELSE Then(skip(toks,
                        IF Kind(toks, p + 1) = "Comma" THEN p + 2 ELSE p + 1,
                        "DoubleArrow"), LAMBDA a :
              Then(expression(toks, a.pos, "Lowest"), LAMBDA b :
              IF Kind(toks, b.pos) = "Comma"
              THEN MatchArms(toks, b.pos + 1,
                             [t |-> "DefaultMatchArm", body |-> b.val], arms)
              ELSE Ok(b.pos, [default |-> [t |-> "DefaultMatchArm", body |-> b.val],
                              arms |-> arms])))
    ELSE Then(MatchConditions(toks, p, <<>>), LAMBDA c :
         IF ~ConditionsPresent(c.val)
         THEN Ok(c.pos, [default |-> default, arms |-> arms])
         ELSE Then(skip(toks, c.pos, "DoubleArrow"), LAMBDA a :
              Then(expression(toks, a.pos, "Lowest"), LAMBDA b :
              IF Kind(toks, b.pos) = "Comma"
              THEN MatchArms(toks, b.pos + 1, default,
                             Append(arms, [conditions |-> c.val, body |-> b.val]))
              ELSE Ok(b.pos, [default |-> default,
                              arms |-> Append(arms, [conditions |-> c.val,
                                                     body |-> b.val])]))))

\* lines 717-767: the arm loop; returns at the loop's exit (condition false
\* or break) with the arms gathered so far.
MatchArms(toks, p0, default, arms) ==
    IF Kind(toks, p0) = "RightBrace"
    THEN Ok(p0, [default |-> default, arms |-> arms])
    ELSE MatchArm(toks, skip_comments(toks, p0), default, arms)

\* lines 706-776: p is the `match` token.
MatchExpression(toks, p) ==
    Then(skip(toks, p + 1, "LeftParen"), LAMBDA lp :
    Then(expression(toks, lp.pos, "Lowest"), LAMBDA condition :
    Then(skip(toks, condition.pos, "RightParen"), LAMBDA rp :
    Then(skip(toks, rp.pos, "LeftBrace"), LAMBDA lb :
    Then(MatchArms(toks, lb.pos, None, <<>>), LAMBDA body :
    Then(skip(toks, body.pos, "RightBrace"), LAMBDA rb :
    Ok(rb.pos, [t |-> "Match", condition |-> condition.val,
                default |-> body.val.default, arms |-> body.val.arms])))))))

\* Parser::function and Parser::anonymous_function: the forms without
\* parameters, return type, `use` list and body statements,
\*   function [&] name ( ) { }      and      function [&] ( ) { }
\* p is the `function` token, q the token after the optional `&`.
EmptySignature(toks, q) ==
    /\ Kind(toks, q) = "LeftParen" /\ Kind(toks, q + 1) = "RightParen"
    /\ Kind(toks, q + 2) = "LeftBrace" /\ Kind(toks, q + 3) = "RightBrace"

AfterAmpersand(toks, p) == IF Kind(toks, p + 1) = "Ampersand" THEN p + 2 ELSE p + 1

function(toks, p) ==
    IF Kind(toks, AfterAmpersand(toks, p)) = "Identifier"
       /\ EmptySignature(toks, AfterAmpersand(toks, p) + 1)
    THEN Ok(AfterAmpersand(toks, p) + 5,
            [t |-> "Function", name |-> Cur(toks, AfterAmpersand(toks, p)).v,
             by_ref |-> Kind(toks, p + 1) = "Ampersand", params |-> <<>>, body |-> <<>>])
    ELSE Unmodelled(p)

anonymous_function(toks, p) ==
    IF EmptySignature(toks, AfterAmpersand(toks, p))
    THEN Ok(AfterAmpersand(toks, p) + 4,
            [t |-> "Closure", by_ref |-> Kind(toks, p + 1) = "Ampersand",
             params |-> <<>>, body |-> <<>>])
    ELSE Unmodelled(p)

\* lines 526-541: the prefix dispatch once attribute groups were gathered.
\* Closures are recognized outside this model.
AttributedPrefix_WithClass(toks, p) ==
    CASE Kind(toks, p) = "Static" /\ Kind(toks, p + 1) \in {"Function", "Fn"} -> Unmodelled(p)
      [] Kind(toks, p) \in {"Function", "Fn"} -> Unmodelled(p)
      [] Kind(toks, p) = "New" /\ Kind(toks, p + 1) = "Class" -> Unmodelled(p)
      [] OTHER -> Err(p, ExpectedItemDefinitionAfterAttributes(p))

AttributedPrefix(toks, p) ==
    CASE Kind(toks, p) = "Static" /\ Kind(toks, p + 1) \in {"Function", "Fn"} -> Unmodelled(p)
      [] Kind(toks, p) = "Function" -> anonymous_function(toks, p)
      [] Kind(toks, p) = "Fn" -> Unmodelled(p)
      [] OTHER -> Err(p, ExpectedItemDefinitionAfterAttributes(p))

\* lines 795-799: `(true, span)` keeps the span of the `&` before the item.
ByRefSpan_Current(amper_span, current_span) == current_span

ByRefSpan(amper_span, current_span) == amper_span

\* lines 803-825: the item after its first expression; q is the cursor,
\* amp the position of a leading `&` (0 when there is none).
ArrayItemRest(toks, q, unpack, amp, first) ==
    IF Kind(toks, q) = "DoubleArrow"
    THEN IF amp # 0
         THEN Err(q + 1, [e |-> "UnexpectedToken", text |-> "Ampersand",
                          span |-> ByRefSpan(amp, q + 1)])
         ELSE IF Kind(toks, q + 1) = "Ampersand"
              THEN Then(expression(toks, q + 2, "Lowest"), LAMBDA value :
                   Ok(value.pos, [key |-> first, value |-> value.val,
                                  unpack |-> unpack, by_ref |-> TRUE]))
              ELSE Then(expression(toks, q + 1, "Lowest"), LAMBDA value :
                   Ok(value.pos, [key |-> first, value |-> value.val,
                                  unpack |-> unpack, by_ref |-> FALSE]))
    ELSE Ok(q, [key |-> None, value |-> first, unpack |-> unpack, by_ref |-> amp # 0])

\* lines 785-801: one item of `array(...)`; p is its first token, q the
\* cursor past an optional `...`.
ArrayItem(toks, p, q) ==
    IF Kind(toks, q) = "Ampersand"
    THEN Then(expression(toks, q + 1, "Lowest"), LAMBDA first :
         ArrayItemRest(toks, first.pos, q # p, q, first.val))
    ELSE Then(expression(toks, q, "Lowest"), LAMBDA first :
         ArrayItemRest(toks, first.pos, q # p, 0, first.val))

\* lines 784-835: `while state.current.kind != TokenKind::RightParen`.
ArrayItems(toks, p, items) ==
    IF Kind(toks, p) # "RightParen"
    THEN Then(ArrayItem(toks, p, IF Kind(toks, p) = "Ellipsis" THEN p + 1 ELSE p),
              LAMBDA item :
              IF Kind(toks, item.pos) = "Comma"
              THEN ArrayItems(toks, skip_comments(toks, item.pos + 1),
                              Append(items, item.val))
              ELSE Ok(item.pos, Append(items, item.val)))
    ELSE Ok(p, items)

\* lines 568-609: p is the `yield` token.
YieldExpression(toks, p) ==
    IF Kind(toks, p + 1) = "SemiColon"
    THEN Ok(p + 1, [t |-> "Yield", key |-> None, value |-> None])
    ELSE IF Kind(toks, p + 1) = "From"
    THEN Then(expression(toks, p + 2, "YieldFrom"), LAMBDA value :
         Ok(value.pos, [t |-> "YieldFrom", value |-> value.val]))
    ELSE Then(expression(toks, p + 1, "Yield"), LAMBDA first :
         IF Kind(toks, first.pos) = "DoubleArrow"
         THEN Then(expression(toks, first.pos + 1, "Yield"), LAMBDA value :
              Ok(value.pos, [t |-> "Yield", key |-> first.val, value |-> value.val]))
         ELSE Ok(first.pos, [t |-> "Yield", key |-> None, value |-> first.val]))

\* lines 777-840: p is the `array` token.
ArrayExpression(toks, p) ==
    Then(skip(toks, p + 1, "LeftParen"), LAMBDA lp :
    Then(ArrayItems(toks, lp.pos, <<>>), LAMBDA items :
    Then(skip(toks, items.pos, "RightParen"), LAMBDA rp :
    Ok(rp.pos, [t |-> "Array", items |-> items.val]))))

\* args_list: `(` [ expression { `,` expression } [ `,` ] ] `)`.  Spread and
\* named arguments are not part of this model.
ArgsRest(toks, p, args) ==
    IF Kind(toks, p) = "RightParen" THEN Ok(p + 1, args)
    ELSE IF Kind(toks, p) = "Ellipsis"
            \/ (Kind(toks, p) = "Identifier" /\ Kind(toks, p + 1) = "Colon")
    THEN Unmodelled(p)
    ELSE Then(expression(toks, p, "Lowest"), LAMBDA value :
         IF Kind(toks, value.pos) = "Comma"
         THEN ArgsRest(toks, value.pos + 1, Append(args, value.val))
         ELSE Then(skip(toks, value.pos, "RightParen"), LAMBDA rp :
              Ok(rp.pos, Append(args, value.val))))

args_list(toks, p) ==
    Then(skip(toks, p, "LeftParen"), LAMBDA lp :
    ArgsRest(toks, lp.pos, <<>>))

\* dynamic_variable: `$` followed by a variable or by `{` expression `}`.
dynamic_variable(toks, p) ==
    Then(skip(toks, p, "Dollar"), LAMBDA d :
    CASE Kind(toks, d.pos) = "Variable" ->
            Ok(d.pos + 1, [t |-> "DynamicVariable",
                           name |-> [t |-> "Variable", name |-> Cur(toks, d.pos).v]])
      [] Kind(toks, d.pos) = "LeftBrace" ->
            Then(expression(toks, d.pos + 1, "Lowest"), LAMBDA e :
            Then(skip(toks, e.pos, "RightBrace"), LAMBDA rb :
            Ok(rb.pos, [t |-> "DynamicVariable", name |-> e.val])))
      [] OTHER -> Unmodelled(d.pos))

is_reserved_ident(kind) == kind \in ReservedKinds

\* lines 848-862: `new`, the cursor p on the `new` token.
NewExpression(toks, p) ==
    Then(expression(toks, p + 1, "CloneOrNew"), LAMBDA target :
    IF Kind(toks, target.pos) = "LeftParen"
    THEN Then(args_list(toks, target.pos), LAMBDA args :
         Ok(args.pos, [t |-> "New", target |-> target.val, args |-> args.val]))
    ELSE Ok(target.pos, [t |-> "New", target |-> target.val, args |-> <<>>]))

\* lines 1044-1077: the member after `::`, with must_be_method_call.
StaticMember(toks, p) ==
    CASE Kind(toks, p) = "Dollar" ->
            Then(dynamic_variable(toks, p), LAMBDA d :
            Ok(d.pos, [property |-> d.val, must_be_method_call |-> FALSE]))
      [] Kind(toks, p) = "Variable" ->
            Then(var(toks, p), LAMBDA v :
            Ok(v.pos, [property |-> [t |-> "Variable", name |-> v.val],
                       must_be_method_call |-> FALSE]))
      [] Kind(toks, p) = "Identifier" ->
            Then(ident(toks, p), LAMBDA i :
            Ok(i.pos, [property |-> [t |-> "Identifier", name |-> i.val],
                       must_be_method_call |-> FALSE]))
      [] Kind(toks, p) = "LeftBrace" ->
            Then(expression(toks, p + 1, "Lowest"), LAMBDA e :
            Then(skip(toks, e.pos, "RightBrace"), LAMBDA rb :
            Ok(rb.pos, [property |-> [t |-> "DynamicVariable", name |-> e.val],
                        must_be_method_call |-> TRUE])))
      [] Kind(toks, p) = "Class" ->
            Ok(p + 1, [property |-> [t |-> "Identifier", name |-> "class"],
                       must_be_method_call |-> FALSE])
      [] OTHER ->
            IF is_reserved_ident(Kind(toks, p))
            THEN Then(ident_maybe_reserved(toks, p), LAMBDA i :
                 Ok(i.pos, [property |-> [t |-> "Identifier", name |-> i.val],
                            must_be_method_call |-> FALSE]))
            ELSE Err(p, ExpectedToken("a left brace, a dollar, an identifier", p))

\* lines 1084-1086: `Expression::Identifier(identifier) if state.current.kind
\* != TokenKind::LeftParen`
IsConstFetch_AnyIdentifier(property, kind) == property.t = "Identifier"

IsConstFetch(property, kind) == property.t = "Identifier" /\ kind # "LeftParen"

\* lines 1081-1110: the node built from the member; p is the cursor.
StaticAccess(toks, p, lhs, member) ==
    IF IsConstFetch(member.property, Kind(toks, p))
    THEN Ok(p, [t |-> "ConstFetch", target |-> lhs, constant |-> member.property])
    ELSE IF Kind(toks, p) = "LeftParen" \/ member.must_be_method_call
    THEN Then(args_list(toks, p), LAMBDA args :
         Ok(args.pos, [t |-> "StaticMethodCall", target |-> lhs,
                       method |-> member.property, args |-> args.val]))
    ELSE Ok(p, [t |-> "StaticPropertyFetch", target |-> lhs,
                property |-> member.property])

\* lines 1115-1125: the member after `->` or `?->`.
ObjectMember(toks, p) ==
    CASE Kind(toks, p) = "LeftBrace" ->
            Then(skip(toks, p, "LeftBrace"), LAMBDA lb :
            Then(expression(toks, lb.pos, "Lowest"), LAMBDA e :
            Then(skip(toks, e.pos, "RightBrace"), LAMBDA rb :
            Ok(rb.pos, e.val))))
      [] Kind(toks, p) = "Variable" ->
            Then(var(toks, p), LAMBDA v : Ok(v.pos, [t |-> "Variable", name |-> v.val]))
      [] Kind(toks, p) = "Dollar" -> dynamic_variable(toks, p)
      [] OTHER ->
            Then(ident_maybe_reserved(toks, p), LAMBDA i :
            Ok(i.pos, [t |-> "Identifier", name |-> i.val]))

\* lines 1127-1153: the node built from the member; p is the cursor.
ObjectAccess(toks, p, lhs, op, property) ==
    IF Kind(toks, p) = "LeftParen"
    THEN Then(args_list(toks, p), LAMBDA args :
         Ok(args.pos, [t |-> IF op = "NullsafeArrow" THEN "NullsafeMethodCall"
                             ELSE "MethodCall",
                       target |-> lhs, method |-> property, args |-> args.val]))
    ELSE Ok(p, [t |-> IF op = "NullsafeArrow" THEN "NullsafePropertyFetch"
                      ELSE "PropertyFetch",
                target |-> lhs, property |-> property])

\* lines 1291-1297: an empty StringPart gives no part.
ConstPart(bytes) == IF Len(bytes) > 0 THEN [t |-> "Const", bytes |-> bytes] ELSE None

ExprPart(e) == [t |-> "Expr", e |-> e]

\* lines 1301-1336: the part after `${`, the cursor p past the `${`.
DollarBracePart(toks, p) ==
    IF Kind(toks, p) = "Identifier" /\ Kind(toks, p + 1) = "RightBrace"
    THEN Ok(p + 2, [t |-> "Variable", name |-> Cur(toks, p).v])
    ELSE IF Kind(toks, p) = "Identifier" /\ Kind(toks, p + 1) = "LeftBracket"
    THEN Then(expression(toks, p + 2, "Lowest"), LAMBDA e :
         Then(skip(toks, e.pos, "RightBracket"), LAMBDA rbt :
         Then(skip(toks, rbt.pos, "RightBrace"), LAMBDA rb :
         Ok(rb.pos, [t |-> "ArrayIndex",
                     array |-> [t |-> "Variable", name |-> Cur(toks, p).v],
                     index |-> e.val]))))
    ELSE Then(expression(toks, p, "Lowest"), LAMBDA e :
         Then(skip(toks, e.pos, "RightBrace"), LAMBDA rb :
         Ok(rb.pos, [t |-> "DynamicVariable", name |-> e.val])))

\* A mutant of SimpleIndex: the index is a full expression.
SimpleIndex_Expression(toks, p) == expression(toks, p, "Lowest")

\* lines 1355-1389: the index of `$var[...]` in the simple syntax.
SimpleIndex(toks, p) ==
    CASE Kind(toks, p) = "LiteralInteger" ->
            Ok(p + 1, [t |-> "LiteralInteger", i |-> Cur(toks, p).v])
      [] Kind(toks, p) = "Minus" ->
            IF Kind(toks, p + 1) = "LiteralInteger"
            THEN Ok(p + 2, [t |-> "Negate",
                            value |-> [t |-> "LiteralInteger", i |-> Cur(toks, p + 1).v]])
            ELSE Err(p + 1, ExpectedToken("an integer", p + 1))
      [] Kind(toks, p) = "Identifier" ->
            Ok(p + 1, [t |-> "LiteralString", value |-> Cur(toks, p).v])
      [] Kind(toks, p) = "Variable" ->
            Then(var(toks, p), LAMBDA v : Ok(v.pos, [t |-> "Variable", name |-> v.val]))
      [] OTHER ->
            Err(p, ExpectedToken("a minus, an integer, an identifier, a variable", p))

\* lines 1348-1423: the part that starts with the variable token at p.
VariablePart(toks, p) ==
    CASE Kind(toks, p + 1) = "LeftBracket" ->
            Then(SimpleIndex(toks, p + 2), LAMBDA index :
            Then(skip(toks, index.pos, "RightBracket"), LAMBDA rb :
            Ok(rb.pos, [t |-> "ArrayIndex",
                        array |-> [t |-> "Variable", name |-> Cur(toks, p).v],
                        index |-> index.val])))
      [] Kind(toks, p + 1) = "Arrow" ->
            Then(ident_maybe_reserved(toks, p + 2), LAMBDA i :
            Ok(i.pos, [t |-> "PropertyFetch",
                       target |-> [t |-> "Variable", name |-> Cur(toks, p).v],
                       property |-> [t |-> "Identifier", name |-> i.val]]))
      [] Kind(toks, p + 1) = "NullsafeArrow" ->
            Then(ident_maybe_reserved(toks, p + 2), LAMBDA i :
            Ok(i.pos, [t |-> "NullsafePropertyFetch",
                       target |-> [t |-> "Variable", name |-> Cur(toks, p).v],
                       property |-> [t |-> "Identifier", name |-> i.val]]))
      [] OTHER -> Ok(p + 1, [t |-> "Variable", name |-> Cur(toks, p).v])

\* lines 1289-1428: val is the part, or None for an empty StringPart.
interpolated_string_part(toks, p) ==
    CASE Kind(toks, p) = "StringPart" -> Ok(p + 1, ConstPart(Cur(toks, p).v))
      [] Kind(toks, p) = "DollarLeftBrace" ->
            Then(DollarBracePart(toks, p + 1), LAMBDA e : Ok(e.pos, ExprPart(e.val)))
      [] Kind(toks, p) = "LeftBrace" ->
            Then(expression(toks, p + 1, "Lowest"), LAMBDA e :
            Then(skip(toks, e.pos, "RightBrace"), LAMBDA rb :
            Ok(rb.pos, ExprPart(e.val))))
      [] Kind(toks, p) = "Variable" ->
            Then(VariablePart(toks, p), LAMBDA e : Ok(e.pos, ExprPart(e.val)))
      [] OTHER -> Err(p, ExpectedToken("a dollar brace, a brace, a double quote, a variable", p))

\* lines 1176-1180, 1192-1196 and 1211-1215: the parts up to the terminator.
StringParts(toks, p, parts, terminator) ==
    IF Kind(toks, p) = terminator THEN Ok(p, parts)
    ELSE Then(interpolated_string_part(toks, p), LAMBDA part :
         StringParts(toks, part.pos,
                     IF part.val = None THEN parts ELSE Append(parts, part.val),
                     terminator))

\* lines 1173-1185
interpolated_string(toks, p) ==
    Then(StringParts(toks, p, <<>>, "DoubleQuote"), LAMBDA parts :
    Ok(parts.pos + 1, [t |-> "InterpolatedString", parts |-> parts.val]))

\* lines 1188-1202
shell_exec(toks, p) ==
    Then(StringParts(toks, p + 1, <<>>, "Backtick"), LAMBDA parts :
    Ok(parts.pos + 1, [t |-> "ShellExec", parts |-> parts.val]))

\* `indentation_type.into()`: the byte of an indentation type.
IndentByte(indentation_type) == IF indentation_type = "Space" THEN " " ELSE "\t"

\* A mutant of Dedent: the bytes are removed whatever they are.
RECURSIVE Dedent_AnyByte(_, _, _)
Dedent_AnyByte(bytes, c, n) ==
    IF n = 0 THEN bytes
    ELSE Dedent_AnyByte(IF Len(bytes) > 0 THEN Tail(bytes) ELSE bytes, c, n - 1)

\* lines 1233-1237 and 1271-1275: `for _ in 0..indentation_amount`.
RECURSIVE Dedent(_, _, _)
Dedent(bytes, c, n) ==
    IF n = 0 THEN bytes
    ELSE Dedent(IF Len(bytes) > 0 /\ Head(bytes) = c THEN Tail(bytes) ELSE bytes, c, n - 1)

\* lines 1227-1243: the parts of a heredoc after the dedent; indent is the
\* (indentation_type, indentation_amount) of the EndDocString.
DedentParts(parts, indent) ==
    IF indent.indentation_type = "None" THEN parts
    ELSE [i \in 1..Len(parts) |->
            IF parts[i].t = "Const"
            THEN [t |-> "Const",
                  bytes |-> Dedent(parts[i].bytes, IndentByte(indent.indentation_type),
                                   indent.indentation_amount)]
            ELSE parts[i]]

\* lines 1265-1268: `s.split(|b| *b == b'\n')`; line is the line being read.
RECURSIVE SplitLines(_, _)
SplitLines(bytes, line) ==
    IF bytes = <<>> THEN <<line>>
    ELSE IF Head(bytes) = "\n" THEN <<line>> \o SplitLines(Tail(bytes), <<>>)
    ELSE SplitLines(Tail(bytes), Append(line, Head(bytes)))

\* lines 1276-1282: the lines joined by `\n`.
RECURSIVE JoinLines(_)
JoinLines(lines) ==
    IF Len(lines) = 0 THEN <<>>
    ELSE IF Len(lines) = 1 THEN lines[1]
    ELSE lines[1] \o <<"\n">> \o JoinLines(Tail(lines))

\* lines 1261-1284: the value of a nowdoc after the dedent.
DedentLines(s, indent) ==
    IF indent.indentation_type = "None" THEN s
    ELSE JoinLines([i \in 1..Len(SplitLines(s, <<>>)) |->
                      Dedent(SplitLines(s, <<>>)[i], IndentByte(indent.indentation_type),
                             indent.indentation_amount)])

\* lines 1205-1287: the cursor p on the StartDocString, whose value is its
\* kind; the value of an EndDocString is its indentation.
doc_string(toks, p, kind) ==
    IF kind = "Heredoc"
    THEN Then(StringParts(toks, p + 1, <<>>, "EndDocString"), LAMBDA parts :
         Ok(parts.pos + 1, [t |-> "Heredoc",
                            parts |-> DedentParts(parts.val, Cur(toks, parts.pos).v)]))
    ELSE IF Kind(toks, p + 1) # "StringPart"
    THEN Err(p + 1, ExpectedToken("constant string", p + 1))
    ELSE IF Kind(toks, p + 2) # "EndDocString"
    THEN Err(p + 2, ExpectedToken("label", p + 2))
    ELSE Ok(p + 3, [t |-> "Nowdoc",
                    value |-> DedentLines(Cur(toks, p + 1).v, Cur(toks, p + 2).v)])

\* lines 635-670: `self`, `static` and `parent` are followed by `::`.
ScopedAccess_Optional(toks, p, node) ==
    IF Kind(toks, p) = "DoubleColon" THEN postfix(toks, p, node, "DoubleColon")
    ELSE Ok(p, node)

ScopedAccess(toks, p, node) == postfix(toks, p, node, "DoubleColon")

\* lines 635-670: the scope keyword at p; in_scope is has_class_scope or
\* has_class_parent_scope.
ScopedKeyword(toks, p, node, in_scope) ==
    IF ScopeMissing(in_scope)
    THEN Err(p, CannotFindTypeInCurrentScope(toks, p))
    ELSE ScopedAccess(toks, p + 1, node)

\* lines 542-901: the prefix dispatch (no attribute group gathered).  The
\* recognizers of list, closures, anonymous classes and `[...]` literals
\* are not part of this model.
PrefixPhase(toks, p) ==
    LET kind == Kind(toks, p)
        peek == Kind(toks, p + 1)
    IN
    CASE kind \in {"List", "Fn", "LeftBracket"} -> Unmodelled(p)
      [] kind = "Function" -> anonymous_function(toks, p)
      [] kind = "New" /\ peek \in {"Class", "Attribute"} -> Unmodelled(p)
      [] kind = "New" -> NewExpression(toks, p)
      [] kind = "StringPart" -> interpolated_string(toks, p)
      [] kind = "StartDocString" -> doc_string(toks, p, Cur(toks, p).v)
      [] kind = "Backtick" -> shell_exec(toks, p)
      [] kind = "Yield" -> YieldExpression(toks, p)
      [] kind = "Static" /\ peek \in {"Function", "Fn"} -> Unmodelled(p)
      [] kind = "Array" -> ArrayExpression(toks, p)
      [] kind = "Throw" ->
            Then(expression(toks, p + 1, "Lowest"), LAMBDA value :
            Ok(value.pos, [t |-> "Throw", value |-> value.val]))
      [] kind = "Clone" ->
            Then(expression(toks, p + 1, "CloneOrNew"), LAMBDA target :
            Ok(target.pos, [t |-> "Clone", target |-> target.val]))
      [] kind = "Variable" -> Ok(p + 1, [t |-> "Variable", name |-> Cur(toks, p).v])
      [] kind = "LiteralInteger" -> Ok(p + 1, [t |-> "LiteralInteger", i |-> Cur(toks, p).v])
      [] kind = "LiteralFloat" -> Ok(p + 1, [t |-> "LiteralFloat", f |-> Cur(toks, p).v])
      [] kind \in {"Identifier", "QualifiedIdentifier", "FullyQualifiedIdentifier"} ->
            Ok(p + 1, [t |-> "Identifier", name |-> Cur(toks, p).v])
      [] kind = "Self_" -> ScopedKeyword(toks, p, [t |-> "Self_"], has_class_scope)
      [] kind = "Static" /\ peek \notin {"Function", "Fn"} ->
            ScopedKeyword(toks, p, [t |-> "Static"], has_class_scope)
      [] kind = "Parent" ->
            ScopedKeyword(toks, p, [t |-> "Parent"], has_class_parent_scope)
      [] kind = "LiteralString" -> Ok(p + 1, [t |-> "LiteralString", value |-> Cur(toks, p).v])
      [] kind = "True" -> Ok(p + 1, [t |-> "Bool", value |-> "true"])
      [] kind = "False" -> Ok(p + 1, [t |-> "Bool", value |-> "false"])
      [] kind = "Null" -> Ok(p + 1, [t |-> "Null"])
      [] kind = "LeftParen" ->
            Then(expression(toks, p + 1, "Lowest"), LAMBDA e :
            Then(skip(toks, e.pos, "RightParen"), LAMBDA rp :
            Ok(rp.pos, e.val)))
      [] kind = "Match" -> MatchExpression(toks, p)
      [] kind = "DirConstant" -> Ok(p + 1, [t |-> "MagicConst", constant |-> "Dir"])
      [] kind \in {"Include", "IncludeOnce", "Require", "RequireOnce"} ->
            Then(expression(toks, p + 1, "Lowest"), LAMBDA path :
            Ok(path.pos, [t |-> "Include", kind |-> kind, path |-> path.val]))
      [] is_prefix(kind) ->
            Then(expression(toks, p + 1, Precedence_prefix(kind)), LAMBDA rhs :
            Ok(rhs.pos, prefix(kind, rhs.val)))
      [] kind = "Dollar" -> dynamic_variable(toks, p)
      [] OTHER -> Err(p, UnexpectedToken(toks, p))

\* lines 993-1170
postfix(toks, p, lhs, op) ==
    CASE op = "Coalesce" ->
            Then(expression(toks, p + 1, "NullCoalesce"), LAMBDA rhs :
            Ok(rhs.pos, [t |-> "Coalesce", lhs |-> lhs, rhs |-> rhs.val]))
      [] op = "LeftBracket" ->
            Then(skip(toks, p, "LeftBracket"), LAMBDA lb :
            IF Kind(toks, lb.pos) = "RightBracket"
            THEN Ok(lb.pos + 1, [t |-> "ArrayIndex", array |-> lhs, index |-> None])
            ELSE Then(expression(toks, lb.pos, "Lowest"), LAMBDA index :
                 Then(skip(toks, index.pos, "RightBracket"), LAMBDA rb :
                 Ok(rb.pos, [t |-> "ArrayIndex", array |-> lhs, index |-> index.val]))))
      [] op = "Increment" -> Ok(p + 1, [t |-> "Increment", value |-> lhs])
      [] op = "Decrement" -> Ok(p + 1, [t |-> "Decrement", value |-> lhs])
      [] op = "LeftParen" ->
            Then(args_list(toks, p), LAMBDA args :
            Ok(args.pos, [t |-> "Call", target |-> lhs, args |-> args.val]))
      [] op = "DoubleColon" ->
            Then(skip(toks, p, "DoubleColon"), LAMBDA dc :
            Then(StaticMember(toks, dc.pos), LAMBDA member :
            StaticAccess(toks, member.pos, lhs, member.val)))
      [] op \in {"Arrow", "NullsafeArrow"} ->
            Then(ObjectMember(toks, p + 1), LAMBDA property :
            ObjectAccess(toks, property.pos, lhs, op, property.val))
      [] OTHER -> Panic(p)

\* lines 940-985: one infix operator at p, of precedence rpred, applied to
\* left; the loop then goes on.
InfixStep(toks, p, left, precedence, kind, rpred) ==
    CASE kind = "Question" ->
            Then(expression(toks, p + 1, "Lowest"), LAMBDA then :
            Then(skip(toks, then.pos, "Colon"), LAMBDA c :
            Then(expression(toks, c.pos, rpred), LAMBDA otherwise :
            InfixLoop(toks, otherwise.pos,
                      [t |-> "Ternary", condition |-> left,
                       then |-> then.val, else |-> otherwise.val],
                      precedence))))
      [] kind = "QuestionColon" ->
            Then(expression(toks, p + 1, "Lowest"), LAMBDA else :
            InfixLoop(toks, else.pos,
                      [t |-> "Ternary", condition |-> left,
                       then |-> None, else |-> else.val],
                      precedence))
      [] OTHER ->
            IF kind = "Equals" /\ Kind(toks, p + 1) = "Ampersand"
            THEN Then(expression(toks, p + 2, rpred), LAMBDA rhs :
                 InfixLoop(toks, rhs.pos, infix(left, kind, rhs.val, TRUE), precedence))
            ELSE Then(expression(toks, p + 1, rpred), LAMBDA rhs :
                 InfixLoop(toks, rhs.pos, infix(left, kind, rhs.val, FALSE), precedence))

\* lines 909-990: one iteration of the infix / postfix loop with the cursor
\* at p, past the comments.
InfixAt(toks, p, left, precedence, kind) ==
    IF kind \in {"SemiColon", "Eof"} THEN Ok(p, left)
    ELSE IF is_postfix(kind)
    THEN IF Precedence_postfix(kind) = "unimplemented" THEN Panic(p)
         ELSE IF PrecLt(Precedence_postfix(kind), precedence) THEN Ok(p, left)
         ELSE Then(postfix(toks, p, left, kind), LAMBDA r :
              InfixLoop(toks, r.pos, r.val, precedence))
    ELSE IF is_infix(kind)
    THEN IF Precedence_infix(kind) = "unimplemented" THEN Panic(p)
         ELSE IF PrecLt(Precedence_infix(kind), precedence) THEN Ok(p, left)
         ELSE IF Precedence_infix(kind) = precedence
                 /\ associativity(Precedence_infix(kind)) = "Left"
              THEN Ok(p, left)
         ELSE IF Precedence_infix(kind) = precedence
                 /\ associativity(Precedence_infix(kind)) = "Non"
              THEN Err(p, UnexpectedToken(toks, p))
         ELSE InfixStep(toks, p, left, precedence, kind, Precedence_infix(kind))
    ELSE Ok(p, left)

\* lines 909-990: the infix / postfix loop.
InfixLoop(toks, p0, left, precedence) ==
    InfixAt(toks, skip_comments(toks, p0), left, precedence,
            Kind(toks, skip_comments(toks, p0)))

\* lines 517-524 and 903-907.
expression(toks, p, precedence) ==
    IF is_eof(toks, p) THEN Err(p, UnexpectedEndOfFile)
    ELSE Then(gather_attributes(toks, p), LAMBDA has_attributes :
         Then(IF has_attributes.val
              THEN AttributedPrefix(toks, has_attributes.pos)
              ELSE PrefixPhase(toks, has_attributes.pos), LAMBDA left :
         IF Kind(toks, left.pos) = "SemiColon" THEN left
         ELSE InfixLoop(toks, left.pos, left.val, precedence)))

\* ------------------------------------------------------------------------
\* Statements (mod.rs, statement / top_level_statement)
\* ------------------------------------------------------------------------

WithLost(r, lost) == [r EXCEPT !.lost = lost \o r.lost]

RECURSIVE GroupUseItems(_, _, _)
RECURSIVE UseItems(_, _, _)
RECURSIVE GlobalVars(_, _, _)
RECURSIVE StaticVars(_, _, _)
RECURSIVE EchoValues(_, _, _)
RECURSIVE Constants(_, _, _)

\* lines 93-101 and 116-124: one `name [as alias]` item.
UseItem(toks, p) ==
    Then(full_name(toks, p), LAMBDA used :
    IF Kind(toks, used.pos) = "As"
    THEN Then(ident(toks, used.pos + 1), LAMBDA alias :
         Ok(alias.pos, [name |-> used.val, alias |-> alias.val]))
    ELSE Ok(used.pos, [name |-> used.val, alias |-> ""]))

\* line 92: `while state.current.kind != TokenKind::RightBrace`
MoreGroupUses_Always(kind) == TRUE

MoreGroupUses(kind) == kind # "RightBrace"

\* lines 92-107: the items between the braces of a group use.
GroupUseItems(toks, p, uses) ==
    IF MoreGroupUses(Kind(toks, p))
    THEN Then(UseItem(toks, p), LAMBDA u :
         GroupUseItems(toks,
                       IF Kind(toks, u.pos) = "Comma" THEN u.pos + 1 ELSE u.pos,
                       Append(uses, u.val)))
    ELSE Ok(p, uses)

\* lines 115-133: `while !state.is_eof()`.
UseItems(toks, p, uses) ==
    IF ~is_eof(toks, p)
    THEN Then(UseItem(toks, p), LAMBDA u :
         IF Kind(toks, u.pos) = "Comma"
         THEN UseItems(toks, u.pos + 1, Append(uses, u.val))
         ELSE Then(skip(toks, u.pos, "SemiColon"), LAMBDA semi :
              Ok(semi.pos, Append(uses, u.val))))
    ELSE Ok(p, uses)

\* lines 73-83: the kind of a `use` whose token is at p.
UseKind(toks, p) ==
    CASE Kind(toks, p + 1) = "Function" -> "Function"
      [] Kind(toks, p + 1) = "Const" -> "Const"
      [] OTHER -> "Normal"

\* lines 85-136: the items; q is the token after `use [function|const]`.
UseBody(toks, q, kind) ==
    IF Kind(toks, q + 1) = "LeftBrace"
    THEN Then(full_name(toks, q), LAMBDA prefix_name :
         Then(GroupUseItems(toks, prefix_name.pos + 1, <<>>), LAMBDA uses :
         Then(skip(toks, uses.pos, "RightBrace"), LAMBDA rb :
         Then(skip(toks, rb.pos, "SemiColon"), LAMBDA semi :
         Ok(semi.pos, [t |-> "GroupUse", prefix |-> prefix_name.val,
                       kind |-> kind, uses |-> uses.val])))))
    ELSE Then(UseItems(toks, q, <<>>), LAMBDA uses :
         Ok(uses.pos, [t |-> "Use", uses |-> uses.val, kind |-> kind]))

\* lines 72-137: p is the `use` token.
UseStatement(toks, p) ==
    UseBody(toks, IF UseKind(toks, p) = "Normal" THEN p + 1 ELSE p + 2, UseKind(toks, p))

\* lines 143-157: the constants of a `const` statement.
Constants(toks, p, constants) ==
    Then(ident(toks, p), LAMBDA constant :
    Then(skip(toks, constant.pos, "Equals"), LAMBDA eq :
    Then(expression(toks, eq.pos, "Lowest"), LAMBDA value :
    IF Kind(toks, value.pos) = "Comma"
    THEN Constants(toks, value.pos + 1,
                   Append(constants, [name |-> constant.val, value |-> value.val]))
    ELSE Ok(value.pos, Append(constants, [name |-> constant.val, value |-> value.val])))))

\* lines 342-350.
GlobalVars(toks, p, vs) ==
    Then(var(toks, p), LAMBDA v :
    IF Kind(toks, v.pos) = "Comma"
    THEN GlobalVars(toks, v.pos + 1, Append(vs, v.val))
    ELSE Ok(v.pos, Append(vs, v.val)))

\* lines 361-379.
StaticVars(toks, p, vs) ==
    Then(var(toks, p), LAMBDA v :
    Then(IF Kind(toks, v.pos) = "Equals"
         THEN expression(toks, v.pos + 1, "Lowest")
         ELSE Ok(v.pos, None), LAMBDA default :
    IF Kind(toks, default.pos) = "Comma"
    THEN StaticVars(toks, default.pos + 1,
                    Append(vs, [var |-> v.val, default |-> default.val]))
    ELSE Ok(default.pos, Append(vs, [var |-> v.val, default |-> default.val]))))

\* lines 458-466.
EchoValues(toks, p, values) ==
    Then(expression(toks, p, "Lowest"), LAMBDA e :
    IF Kind(toks, e.pos) = "Comma"
    THEN EchoValues(toks, e.pos + 1, Append(values, e.val))
    ELSE Ok(e.pos, Append(values, e.val)))

\* The Statement variant `variant` holding x.
Node(variant, x) ==
    CASE variant = "Goto" -> [t |-> "Goto", label |-> x]
      [] variant = "Global" -> [t |-> "Global", vars |-> x]
      [] variant = "Static" -> [t |-> "Static", vars |-> x]
      [] variant = "Echo" -> [t |-> "Echo", values |-> x]
      [] variant = "Return" -> [t |-> "Return", value |-> x]
      [] variant = "Constant" -> [t |-> "Constant", constants |-> x]
      [] variant = "Expression" -> [t |-> "Expression", expr |-> x]

\* `items` followed by the required `;`, giving the statement `variant`.
ThenSemicolon(toks, items, variant) ==
    Then(items, LAMBDA i :
    Then(skip(toks, i.pos, "SemiColon"), LAMBDA semi :
    Ok(semi.pos, Node(variant, i.val))))

\* lines 483-487: `.ok()` turns an Err of the value expression into None;
\* the error itself is dropped (kept here in `lost`), a panic is not caught.
ReturnValue(toks, value) ==
    IF value.st \in {"panic", "unmodelled"} THEN value
    ELSE WithLost(ThenSemicolon(toks, Ok(value.pos, value.val), "Return"),
                  IF value.st = "err" THEN <<value.err>> ELSE <<>>)

\* lines 471-489: p is the `return` token.
ReturnStatement(toks, p) ==
    IF Kind(toks, p + 1) = "SemiColon"
    THEN ThenSemicolon(toks, Ok(p + 1, None), "Return")
    ELSE ReturnValue(toks, expression(toks, p + 1, "Lowest"))

CommentStatement(toks, p) ==
    [t |-> "Comment", start |-> p, end |-> p + 1, format |-> Kind(toks, p),
     content |-> Cur(toks, p).v]

\* lines 181-183 and 510-512: `if let TokenKind::CloseTag = ... { state.next() }`.
SkipCloseTag(toks, p) == IF Kind(toks, p) = "CloseTag" THEN p + 1 ELSE p

\* lines 507-514: skip_comments, then an optional closing tag.
AfterStatement(toks, r) ==
    Then(r, LAMBDA s :
    [s EXCEPT !.pos = SkipCloseTag(toks, skip_comments(toks, s.pos))])

\* lines 191-238: the statement once attribute groups were gathered.
\* Declarations are recognized outside this model.
AttributedStatement(toks, p, kind, peek) ==
    CASE kind \in {"Abstract", "Readonly", "Final", "Class", "Interface", "Trait",
                   "Enum"} -> Unmodelled(p)
      [] kind = "Function" /\ peek \in {"Identifier", "Null", "Ampersand"} -> function(toks, p)
      [] OTHER -> Err(p, ExpectedItemDefinitionAfterAttributes(p))

\* lines 239-506 (no attribute group gathered).  Declarations, control
\* flow, declare and blocks are recognized outside this model.
StatementBody(toks, p, kind, peek) ==
    CASE kind \in {"Abstract", "Readonly", "Final", "Class", "Interface",
                   "Trait", "Enum", "Declare", "Do", "While", "For", "Foreach", "Switch",
                   "Continue", "Break", "If", "Try", "LeftBrace"} -> Unmodelled(p)
      [] kind = "Function" /\ peek \in {"Identifier", "Null", "Ampersand"} -> function(toks, p)
      [] kind = "Goto" ->
            ThenSemicolon(toks, ident(toks, p + 1), "Goto")
      [] kind = "Identifier" /\ peek = "Colon" ->
            Ok(p + 2, [t |-> "Label", label |-> Cur(toks, p).v])
      [] kind = "Global" ->
            ThenSemicolon(toks, GlobalVars(toks, p + 1, <<>>), "Global")
      [] kind = "Static" /\ peek = "Variable" ->
            ThenSemicolon(toks, StaticVars(toks, p + 1, <<>>), "Static")
      [] kind = "InlineHtml" -> Ok(p + 1, [t |-> "InlineHtml", html |-> Cur(toks, p).v])
      [] kind \in CommentKinds -> Ok(p + 1, CommentStatement(toks, p))
      [] kind = "Echo" ->
            ThenSemicolon(toks, EchoValues(toks, p + 1, <<>>), "Echo")
      [] kind = "Return" -> ReturnStatement(toks, p)
      [] kind = "SemiColon" -> Ok(p + 1, [t |-> "Noop"])
      [] OTHER ->
            ThenSemicolon(toks, expression(toks, p, "Lowest"), "Expression")

\* The tokens without the one at index i.
RemoveAt(toks, i) == SubSeq(toks, 1, i - 1) \o SubSeq(toks, i + 1, Len(toks))

\* A mutant of LookPastAmpersand: the token is taken from state.iter itself,
\* which loses it.
LookPastAmpersand_Consuming(toks, p) ==
    [token |-> Cur(toks, p + 2), toks |-> RemoveAt(toks, p + 2)]

\* lines 211-218 and 267-274: the token after the `&`, read from a clone of
\* state.iter (the tokens after state.peek); toks is what the state holds
\* afterwards.
LookPastAmpersand(toks, p) == [token |-> Cur(toks, p + 2), toks |-> toks]

\* lines 200-231 and 256-279: `function` at p followed by `&`.  The
\* expression statement is returned at once (lines 220-224 and 275-279).
FunctionAfterLook(look, p) ==
    IF look.token.kind # "Identifier"
    THEN ThenSemicolon(look.toks, expression(look.toks, p, "Lowest"), "Expression")
    ELSE AfterStatement(look.toks, function(look.toks, p))

FunctionAmpersand(toks, p) == FunctionAfterLook(LookPastAmpersand(toks, p), p)

\* lines 188-515.
statement(toks, p) ==
    Then(gather_attributes(toks, p), LAMBDA has_attributes :
    IF Kind(toks, has_attributes.pos) = "Function"
       /\ Kind(toks, has_attributes.pos + 1) = "Ampersand"
    THEN FunctionAmpersand(toks, has_attributes.pos)
    ELSE AfterStatement(toks,
            IF has_attributes.val
            THEN AttributedStatement(toks, has_attributes.pos,
                                     Kind(toks, has_attributes.pos),
                                     Kind(toks, has_attributes.pos + 1))
            ELSE StatementBody(toks, has_attributes.pos,
                               Kind(toks, has_attributes.pos),
                               Kind(toks, has_attributes.pos + 1))))

\* lines 70-185: the statement at p, past the comments.
TopLevelBody(toks, p, kind) ==
    CASE kind = "Namespace" -> Unmodelled(p)
      [] kind = "Use" -> UseStatement(toks, p)
      [] kind = "Const" ->
            ThenSemicolon(toks, Constants(toks, p + 1, <<>>), "Constant")
      [] kind = "HaltCompiler" ->
            IF Kind(toks, p + 1) = "InlineHtml"
            THEN Ok(p + 2, [t |-> "HaltCompiler", content |-> Cur(toks, p + 1).v])
            ELSE Ok(p + 1, [t |-> "HaltCompiler", content |-> ""])
      [] OTHER -> statement(toks, p)

\* lines 67-186.
top_level_statement(toks, p0) ==
    Then(TopLevelBody(toks, skip_comments(toks, p0), Kind(toks, skip_comments(toks, p0))),
         LAMBDA r : [r EXCEPT !.pos = SkipCloseTag(toks, r.pos)])

\* ------------------------------------------------------------------------
\* Parser::parse (mod.rs, lines 39-65) as a state machine: one step per
\* iteration of the top-level loop.
\*   tokens   the input, ending with the Eof sentinel
\*   pos      the cursor (index of state.current)
\*   ast      the statements pushed so far; the returned program once
\*            status = "ok"
\*   starts, ends   for each statement of ast, the cursor before and after it
\*   comments the pending-comment buffer of the state
\*   status   "running", or how parse returned: "ok", "err", "panic"; or
\*            "unmodelled" (see TopLevelFail)
\*   error    the error of Err(error)
\*   raised   every error a nested recognizer has returned so far
\* ------------------------------------------------------------------------

\* lines 45-48: `TokenKind::OpenTag(_) | TokenKind::CloseTag`
TagKinds_OpenOnly == {"OpenTag"}

TagKinds == {"OpenTag", "CloseTag"}

\* line 59: `ast.push(..)`
push_front(v, x) == <<x>> \o v

push(v, x) == Append(v, x)

InitWith(inputs) ==
    /\ tokens \in inputs
    /\ pos = 1
    /\ ast = <<>>
    /\ starts = <<>>
    /\ ends = <<>>
    /\ comments = <<>>
    /\ status = "running"
    /\ error = NoErr
    /\ raised = <<>>

\* lines 45-51
SkipTag ==
    /\ status = "running"
    /\ Kind(tokens, pos) \in TagKinds
    /\ pos' = pos + 1
    /\ UNCHANGED <<tokens, ast, starts, ends, comments, status, error, raised>>

\* lines 53-61, the statement is recognized
TopLevel ==
    /\ status = "running"
    /\ Kind(tokens, pos) \notin TagKinds \cup {"Eof"}
    /\ \E g \in {gather_comments(tokens, pos)} :
       \E r \in {top_level_statement(tokens, g)} :
       /\ ~is_eof(tokens, g)
       /\ r.st = "ok"
       /\ ast' = push(ast, r.val)
       /\ starts' = push(starts, g)
       /\ ends' = push(ends, r.pos)
       /\ pos' = r.pos
       /\ comments' = <<>>
       /\ raised' = raised \o r.lost
    /\ UNCHANGED <<tokens, status, error>>

\* line 59, `?` on an Err (or a panic unwinding through parse); status
\* "unmodelled" records that the parse went on in a recognizer outside this
\* model.
TopLevelFail ==
    /\ status = "running"
    /\ Kind(tokens, pos) \notin TagKinds \cup {"Eof"}
    /\ \E g \in {gather_comments(tokens, pos)} :
       \E r \in {top_level_statement(tokens, g)} :
       /\ ~is_eof(tokens, g)
       /\ r.st \in {"err", "panic", "unmodelled"}
       /\ status' = r.st
       /\ error' = r.err
       /\ pos' = r.pos
       /\ comments' = GatheredComments(tokens, pos)
       /\ raised' = raised \o r.lost \o (IF r.st = "err" THEN <<r.err>> ELSE <<>>)
    /\ UNCHANGED <<tokens, ast, starts, ends>>

\* lines 44, 55-57 and 64: the loop ends and parse returns Ok(ast)
Finish ==
    /\ status = "running"
    /\ Kind(tokens, pos) \notin TagKinds
    /\ is_eof(tokens, gather_comments(tokens, pos))
    /\ status' = "ok"
    /\ pos' = gather_comments(tokens, pos)
    /\ comments' = GatheredComments(tokens, pos)
    /\ UNCHANGED <<tokens, ast, starts, ends, error, raised>>

Next == SkipTag \/ TopLevel \/ TopLevelFail \/ Finish

\* ------------------------------------------------------------------------
\* Inputs
\* ------------------------------------------------------------------------

RECURSIVE Flatten(_)
Flatten(ss) == IF ss = <<>> THEN <<>> ELSE Head(ss) \o Flatten(Tail(ss))

SeqsUpTo(S, n) == UNION {[1..k -> S] : k \in 0..n}

Program(body) == <<Tok("OpenTag")>> \o body \o <<EofTok>>

\* -- operator chains  o1 op1 o2 op2 ... ;

MaxOps == 3

AssignmentOps ==
    {"Equals", "PlusEquals", "MinusEquals", "AsteriskEqual", "SlashEquals", "DotEquals",
     "PowEquals", "CoalesceEqual", "PercentEquals", "AmpersandEquals", "PipeEquals",
     "CaretEquals", "LeftShiftEquals", "RightShiftEquals"}

BinaryOps ==
    {"Pow", "Coalesce", "Asterisk", "Slash", "Percent", "Plus", "Minus", "LeftShift",
     "RightShift", "Dot", "Ampersand", "Pipe", "Caret", "BooleanAnd", "BooleanOr",
     "LogicalAnd", "LogicalOr", "LogicalXor", "Instanceof", "Question", "QuestionColon",
     "DoubleEquals", "BangEquals", "TripleEquals", "BangDoubleEquals", "AngledLeftRight",
     "Spaceship", "LessThan", "LessThanEquals", "GreaterThan", "GreaterThanEquals"}
    \cup AssignmentOps

CoreOps == {"Equals", "Plus", "Asterisk", "Pow", "Coalesce", "DoubleEquals", "Question"}

OperandModes == {"vars", "lits", "var_lits"}

VarNames == <<"a", "b", "c", "d", "e">>

LitValues == <<"1", "2", "3", "4", "5">>

Operand(mode, i) ==
    IF mode = "vars" \/ (mode = "var_lits" /\ i = 1)
    THEN TokV("Variable", VarNames[i])
    ELSE TokV("LiteralInteger", LitValues[IF mode = "lits" THEN i ELSE i - 1])

\* `?` is written with its middle operand: `? 9 :`
OpTokens(op) ==
    IF op = "Question"
    THEN <<Tok("Question"), TokV("LiteralInteger", "9"), Tok("Colon")>>
    ELSE <<Tok(op)>>

Chain(mode, ops) ==
    Program(<<Operand(mode, 1)>>
            \o Flatten([i \in 1..Len(ops) |-> OpTokens(ops[i]) \o <<Operand(mode, i + 1)>>])
            \o <<Tok("SemiColon")>>)

ExprInputs(n) ==
    {Chain(m, ops) : m \in OperandModes, ops \in [1..2 -> BinaryOps]}
    \cup {Chain(m, ops) : m \in OperandModes, ops \in SeqsUpTo(CoreOps, n)}

\* -- match expressions  match ($x) { arm , arm ... [,] } ;

MaxArms == 3

ArmShapes == {"default", "default_comma", "none", "one", "two", "two_comma"}

BodyValues == <<"a", "b", "c", "d", "e">>

ArmTokens(shape, i) ==
    LET arrow_body == <<Tok("DoubleArrow"), TokV("LiteralString", BodyValues[i])>>
        one == TokV("LiteralInteger", "1")
        two == TokV("LiteralInteger", "2")
    IN
    CASE shape = "default" -> <<Tok("Default")>> \o arrow_body
      [] shape = "default_comma" -> <<Tok("Default"), Tok("Comma")>> \o arrow_body
      [] shape = "none" -> arrow_body
      [] shape = "one" -> <<one>> \o arrow_body
      [] shape = "two" -> <<one, Tok("Comma"), two>> \o arrow_body
      [] shape = "two_comma" -> <<one, Tok("Comma"), two, Tok("Comma")>> \o arrow_body

MatchTokens(shapes, trailing) ==
    Program(<<Tok("Match"), Tok("LeftParen"), TokV("Variable", "x"), Tok("RightParen"),
              Tok("LeftBrace")>>
            \o Flatten([i \in 1..Len(shapes) |->
                          ArmTokens(shapes[i], i)
                          \o (IF i < Len(shapes) \/ trailing THEN <<Tok("Comma")>> ELSE <<>>)])
            \o <<Tok("RightBrace"), Tok("SemiColon")>>)

MatchInputs(n) ==
    {MatchTokens(shapes, trailing) : shapes \in SeqsUpTo(ArmShapes, n),
                                     trailing \in BOOLEAN}

\* -- use statements and plain statements over small alphabets

MaxUseBody == 5

MaxStmtBody == 4

UseKinds == {<<>>, <<Tok("Function")>>, <<Tok("Const")>>}

UseAlphabet == {TokV("Identifier", "A"), Tok("As"), Tok("Comma"), Tok("SemiColon")}

GroupUseAlphabet ==
    {TokV("Identifier", "A"), TokV("Identifier", "B"), Tok("As"), Tok("Comma")}

UseInputs(n) ==
    {Program(<<Tok("Use")>> \o k \o body) :
        k \in UseKinds, body \in SeqsUpTo(UseAlphabet, n)}
    \cup
    {Program(<<Tok("Use")>> \o k \o <<TokV("Identifier", "P"), Tok("LeftBrace")>> \o body
             \o <<Tok("RightBrace"), Tok("SemiColon")>>) :
        k \in UseKinds, body \in SeqsUpTo(GroupUseAlphabet, n - 1)}

StmtAlphabet ==
    {Tok("Global"), Tok("Static"), Tok("Return"), TokV("Variable", "a"),
     TokV("LiteralInteger", "1"), Tok("Comma"), Tok("SemiColon"), Tok("Equals"), Tok("Plus")}

StmtInputs(n) == {Program(body) : body \in SeqsUpTo(StmtAlphabet, n)}

\* -- tags, comments, scope keywords and short statements

MaxTopBody == 4

TopAlphabet ==
    {Tok("OpenTag"), Tok("CloseTag"), TokV("SingleLineComment", "c"),
     TokV("DocumentComment", "d"), Tok("Return"), Tok("SemiColon"),
     TokV("Variable", "a"), Tok("Self_"), Tok("Static"), Tok("Parent"), Tok("Plus")}

TopInputs(n) == {Program(body) : body \in SeqsUpTo(TopAlphabet, n)}

\* -- identifier operations applied one after the other to a token sequence

MaxIdentBody == 3

IdentAlphabet ==
    {TokV("Identifier", "A"), TokV("QualifiedIdentifier", "A\\B"),
     TokV("FullyQualifiedIdentifier", "\\A"), TokV("Variable", "a"), Tok("Array"),
     Tok("Callable"), Tok("Static"), Tok("Namespace"), Tok("Match"), Tok("Plus")}

IdentInputs(n) == {body \o <<EofTok>> : body \in SeqsUpTo(IdentAlphabet, n)}

\* A caller applies an identifier operation and goes on when it succeeded;
\* ast records the operations applied and their values.
IdentSucceeds ==
    /\ status = "running"
    /\ \E op \in IdentOps :
       \E r \in {IdentOp(op, tokens, pos)} :
          /\ r.st = "ok"
          /\ ast' = push(ast, [t |-> op, value |-> r.val])
          /\ starts' = push(starts, pos)
          /\ ends' = push(ends, r.pos)
          /\ pos' = r.pos
    /\ UNCHANGED <<tokens, comments, status, error, raised>>

\* ... and returns the error when it failed.
IdentFails ==
    /\ status = "running"
    /\ \E op \in IdentOps :
       \E r \in {IdentOp(op, tokens, pos)} :
          /\ r.st = "err"
          /\ status' = "err"
          /\ error' = r.err
          /\ pos' = r.pos
          /\ raised' = raised \o <<r.err>>
    /\ UNCHANGED <<tokens, ast, starts, ends, comments>>

NextIdent == IdentSucceeds \/ IdentFails

InitIdent == InitWith(IdentInputs(MaxIdentBody))

SpecIdent == InitIdent /\ [][NextIdent]_vars

\* -- attribute groups followed by a continuation

MaxAttrCont == 2

AttrPrefixes == {<<>>, <<Tok("Echo")>>, <<TokV("Variable", "a"), Tok("Equals")>>}

AttrGroups ==
    {<<>>,
     <<Tok("Attribute"), TokV("Identifier", "A"), Tok("RightBracket")>>,
     <<Tok("Attribute"), TokV("Identifier", "A"), Tok("Comma"), TokV("Identifier", "B"),
       Tok("RightBracket")>>,
     <<Tok("Attribute"), TokV("Identifier", "A"), Tok("RightBracket"),
       Tok("Attribute"), TokV("Identifier", "B"), Tok("RightBracket")>>,
     <<Tok("Attribute"), Tok("RightBracket")>>,
     <<Tok("Attribute"), TokV("Identifier", "A")>>}

AttrContAlphabet ==
    {Tok("Function"), Tok("Fn"), Tok("Static"), Tok("New"), Tok("Class"), Tok("Abstract"),
     TokV("Variable", "a"), TokV("LiteralInteger", "1"), TokV("Identifier", "f"),
     Tok("SemiColon")}

AttrInputs(n) ==
    {Program(before \o groups \o cont \o <<Tok("SemiColon")>>) :
        before \in AttrPrefixes, groups \in AttrGroups,
        cont \in SeqsUpTo(AttrContAlphabet, n)}

InitAttr == InitWith(AttrInputs(MaxAttrCont))

SpecAttr == InitAttr /\ [][Next]_vars

\* -- array literals  array ( item , item ... [,] ) ;

MaxItems == 2

ItemForms == {"value", "key_value", "key_ref_value"}

ItemShapes == [spread : BOOLEAN, ref : BOOLEAN, form : ItemForms]

ItemTokens(shape, i) ==
    (IF shape.spread THEN <<Tok("Ellipsis")>> ELSE <<>>)
    \o (IF shape.ref THEN <<Tok("Ampersand")>> ELSE <<>>)
    \o (CASE shape.form = "value" -> <<TokV("Variable", VarNames[i])>>
          [] shape.form = "key_value" ->
                <<TokV("LiteralInteger", LitValues[i]), Tok("DoubleArrow"),
                  TokV("Variable", VarNames[i])>>
          [] shape.form = "key_ref_value" ->
                <<TokV("LiteralInteger", LitValues[i]), Tok("DoubleArrow"),
                  Tok("Ampersand"), TokV("Variable", VarNames[i])>>)

ArrayTokens(shapes, trailing) ==
    Program(<<Tok("Array"), Tok("LeftParen")>>
            \o Flatten([i \in 1..Len(shapes) |->
                          ItemTokens(shapes[i], i)
                          \o (IF i < Len(shapes) \/ trailing THEN <<Tok("Comma")>> ELSE <<>>)])
            \o <<Tok("RightParen"), Tok("SemiColon")>>)

ArrayInputs(n) ==
    {ArrayTokens(shapes, trailing) : shapes \in SeqsUpTo(ItemShapes, n),
                                     trailing \in BOOLEAN}

InitArray == InitWith(ArrayInputs(MaxItems))

SpecArray == InitArray /\ [][Next]_vars

\* -- yield as a statement and as an array item

MaxYieldBody == 5

YieldAlphabet ==
    {Tok("Yield"), Tok("From"), TokV("Variable", "a"), TokV("LiteralInteger", "1"),
     Tok("DoubleArrow"), Tok("Plus")}

YieldInputs(n) ==
    {Program(body \o <<Tok("SemiColon")>>) : body \in SeqsUpTo(YieldAlphabet, n)}
    \cup
    {Program(<<Tok("Array"), Tok("LeftParen")>> \o body
             \o <<Tok("RightParen"), Tok("SemiColon")>>) :
        body \in SeqsUpTo(YieldAlphabet, n)}

InitYield == InitWith(YieldInputs(MaxYieldBody))

SpecYield == InitYield /\ [][Next]_vars

\* -- heredocs, nowdocs and shell-exec strings as expression statements

MaxBytes == 3

MaxDocParts == 2

MaxIndent == 2

MaxNowdocBytes == 4

DocChars == {" ", "\t", "x"}

NowdocChars == {" ", "x", "\n"}

Indentation(type, amount) == [indentation_type |-> type, indentation_amount |-> amount]

\* An EndDocString without indentation, or indented by 1..MaxIndent spaces
\* or tabs.
Indentations ==
    {Indentation("None", 0)}
    \cup {Indentation(type, n) : type \in {"Space", "Tab"}, n \in 1..MaxIndent}

DocPartTokens(bytes) ==
    {TokV("StringPart", b) : b \in SeqsUpTo(DocChars, bytes)}
    \cup {TokV("Variable", "a")}

PartBytes(tok) == IF tok.kind = "StringPart" THEN Len(tok.v) ELSE 0

\* The bodies of at most `parts` parts that hold at most `bytes` bytes.
RECURSIVE DocBodies(_, _)
DocBodies(parts, bytes) ==
    IF parts = 0 THEN {<<>>}
    ELSE {<<>>}
         \cup UNION {{<<p>> \o rest : rest \in DocBodies(parts - 1, bytes - PartBytes(p))} :
                       p \in DocPartTokens(bytes)}

DocInputs(parts, bytes) ==
    {Program(<<TokV("StartDocString", "Heredoc")>> \o body
             \o <<TokV("EndDocString", i), Tok("SemiColon")>>) :
        body \in DocBodies(parts, bytes), i \in Indentations}
    \cup
    {Program(<<TokV("StartDocString", "Nowdoc"), TokV("StringPart", b),
               TokV("EndDocString", i), Tok("SemiColon")>>) :
        b \in SeqsUpTo(NowdocChars, MaxNowdocBytes), i \in Indentations}
    \cup
    {Program(<<TokV("StartDocString", "Nowdoc"), TokV("Variable", "a"),
               TokV("EndDocString", i), Tok("SemiColon")>>) : i \in Indentations}
    \cup
    {Program(<<Tok("Backtick")>> \o body \o <<Tok("Backtick"), Tok("SemiColon")>>) :
        body \in DocBodies(parts, bytes)}

InitDoc == InitWith(DocInputs(MaxDocParts, MaxBytes))

SpecDoc == InitDoc /\ [][Next]_vars

\* -- `function`, with and without `&`, name and attribute group

MaxFnTrail == 1

FnAttributes == {<<>>, <<Tok("Attribute"), TokV("Identifier", "A"), Tok("RightBracket")>>}

FnHeads == {<<Tok("Function")>>, <<Tok("Function"), Tok("Ampersand")>>}

FnNames == {<<>>, <<TokV("Identifier", "f")>>, <<Tok("Null")>>, <<TokV("Variable", "a")>>}

FnRests ==
    {<<Tok("LeftParen"), Tok("RightParen"), Tok("LeftBrace"), Tok("RightBrace")>>,
     <<Tok("LeftParen"), Tok("RightParen"), Tok("LeftBrace"), Tok("RightBrace"),
       Tok("SemiColon")>>,
     <<Tok("LeftParen"), Tok("RightParen"), Tok("SemiColon")>>,
     <<Tok("LeftParen"), TokV("Variable", "a"), Tok("RightParen"), Tok("LeftBrace"),
       Tok("RightBrace")>>,
     <<Tok("SemiColon")>>}

FnTrails == SeqsUpTo({<<TokV("Variable", "a"), Tok("SemiColon")>>}, MaxFnTrail)

FnInputs ==
    {Program(a \o h \o n \o r \o Flatten(trail)) :
        a \in FnAttributes, h \in FnHeads, n \in FnNames, r \in FnRests,
        trail \in FnTrails}

InitFn == InitWith(FnInputs)

SpecFn == InitFn /\ [][Next]_vars

\* -- `self`, `static` and `parent` in the prefix phase, inside and outside
\* a class (the flags of the state are set by the class recognizers)

MaxScopeBody == 3

ScopeKinds == {"Self_", "Static", "Parent"}

ScopeAlphabet ==
    {Tok("DoubleColon"), TokV("Identifier", "c"), TokV("Variable", "v"), Tok("Class"),
     Tok("New"), Tok("LeftParen"), Tok("RightParen"), Tok("Plus")}

ScopeInputs(n) ==
    {<<Tok(k)>> \o body \o <<Tok("SemiColon"), EofTok>> :
        k \in ScopeKinds, body \in SeqsUpTo(ScopeAlphabet, n)}

\* The prefix phase returns a node for the keyword under the cursor; ast
\* records the flag of the state and the node.
ScopeAccepted ==
    /\ status = "running"
    /\ \E in_scope \in BOOLEAN :
       \E r \in {ScopedKeyword(tokens, pos, [t |-> Kind(tokens, pos)], in_scope)} :
          /\ r.st = "ok"
          /\ ast' = push(ast, [t |-> "Prefix", in_scope |-> in_scope, value |-> r.val])
          /\ starts' = push(starts, pos)
          /\ ends' = push(ends, r.pos)
          /\ pos' = r.pos
          /\ status' = "ok"
    /\ UNCHANGED <<tokens, comments, error, raised>>

\* ... or an error.
ScopeRejected ==
    /\ status = "running"
    /\ \E in_scope \in BOOLEAN :
       \E r \in {ScopedKeyword(tokens, pos, [t |-> Kind(tokens, pos)], in_scope)} :
          /\ r.st = "err"
          /\ status' = "err"
          /\ error' = r.err
          /\ pos' = r.pos
          /\ raised' = raised \o <<r.err>>
    /\ UNCHANGED <<tokens, ast, starts, ends, comments>>

NextScope == ScopeAccepted \/ ScopeRejected

InitScope == InitWith(ScopeInputs(MaxScopeBody))

SpecScope == InitScope /\ [][NextScope]_vars

\* -- `lhs :: member` followed by an argument list, an operator or nothing

MaxArgs == 2

StaticTargets == {TokV("Identifier", "A"), TokV("Variable", "a")}

StaticMembers ==
    {<<TokV("Identifier", "c")>>, <<Tok("Class")>>, <<Tok("New")>>, <<Tok("Static")>>,
     <<TokV("Variable", "v")>>, <<Tok("Dollar"), TokV("Variable", "v")>>,
     <<Tok("LeftBrace"), TokV("Variable", "v"), Tok("RightBrace")>>,
     <<TokV("LiteralInteger", "1")>>, <<Tok("Plus")>>,
     <<TokV("QualifiedIdentifier", "A\\B")>>}

ArgValues == {TokV("LiteralInteger", "1"), TokV("Variable", "v")}

RECURSIVE CommaSeparated(_)
CommaSeparated(values) ==
    IF Len(values) <= 1 THEN values
    ELSE <<Head(values), Tok("Comma")>> \o CommaSeparated(Tail(values))

ArgLists ==
    {<<Tok("LeftParen")>> \o CommaSeparated(values) \o <<Tok("RightParen")>> :
        values \in SeqsUpTo(ArgValues, MaxArgs)}

StaticFollows ==
    ArgLists \cup {<<>>, <<Tok("LeftParen")>>, <<Tok("Plus"), TokV("LiteralInteger", "1")>>,
                   <<Tok("DoubleColon"), TokV("Identifier", "c")>>}

StaticInputs ==
    {Program(<<target, Tok("DoubleColon")>> \o member \o follow \o <<Tok("SemiColon")>>) :
        target \in StaticTargets, member \in StaticMembers, follow \in StaticFollows}

InitStatic == InitWith(StaticInputs)

SpecStatic == InitStatic /\ [][Next]_vars

\* -- `new target`, with and without an argument list

NewPrefixes == {<<>>, <<TokV("Variable", "x"), Tok("Equals")>>}

NewTargets ==
    {TokV("Identifier", "A"), TokV("QualifiedIdentifier", "A\\B"), TokV("Variable", "a"),
     TokV("LiteralInteger", "1")}

NewFollows ==
    {<<>>, <<Tok("Arrow"), TokV("Identifier", "c")>>,
     <<Tok("Plus"), TokV("LiteralInteger", "1")>>}

NewInputs ==
    {Program(before \o <<Tok("New"), target>> \o args \o follow \o <<Tok("SemiColon")>>) :
        before \in NewPrefixes, target \in NewTargets,
        args \in ArgLists \cup {<<>>, <<Tok("LeftParen")>>}, follow \in NewFollows}

InitNew == InitWith(NewInputs)

SpecNew == InitNew /\ [][Next]_vars

\* -- double-quoted strings: a first StringPart, then parts

MaxInterpParts == 2

IndexOf(index) == <<Tok("LeftBracket")>> \o index \o <<Tok("RightBracket")>>

SimplePostfixes ==
    {<<>>,
     IndexOf(<<TokV("LiteralInteger", "0")>>),
     IndexOf(<<Tok("Minus"), TokV("LiteralInteger", "0")>>),
     IndexOf(<<TokV("Identifier", "x")>>),
     IndexOf(<<TokV("Variable", "v")>>),
     <<Tok("Arrow"), TokV("Identifier", "x")>>,
     <<Tok("NullsafeArrow"), TokV("Identifier", "x")>>,
     <<Tok("Arrow"), Tok("Static")>>,
     IndexOf(<<TokV("LiteralString", "s")>>),
     IndexOf(<<Tok("Minus"), TokV("Identifier", "x")>>),
     IndexOf(<<Tok("Plus")>>),
     <<Tok("LeftBracket"), TokV("LiteralInteger", "0")>>}

FurtherPostfixes ==
    {<<>>, IndexOf(<<TokV("LiteralInteger", "0")>>), <<Tok("Arrow"), TokV("Identifier", "x")>>}

BracePart ==
    <<Tok("LeftBrace"), TokV("Variable", "obj"), Tok("Arrow"), TokV("Identifier", "x"),
      Tok("RightBrace")>>

InterpParts ==
    {<<TokV("Variable", "name")>> \o first \o further :
        first \in SimplePostfixes, further \in FurtherPostfixes}
    \cup {<<TokV("StringPart", <<" ">>)>>, BracePart}

Hello == <<"h", "e", "l", "l", "o", " ">>

\* <?php $s = "hello $name[0] {$obj->x}";
InterpExample ==
    Program(<<TokV("Variable", "s"), Tok("Equals"), TokV("StringPart", Hello),
              TokV("Variable", "name")>> \o IndexOf(<<TokV("LiteralInteger", "0")>>)
            \o <<TokV("StringPart", <<" ">>)>> \o BracePart
            \o <<Tok("DoubleQuote"), Tok("SemiColon")>>)

InterpInputs(n) ==
    {Program(<<TokV("StringPart", Hello)>> \o Flatten(parts)
             \o <<Tok("DoubleQuote"), Tok("SemiColon")>>) :
        parts \in SeqsUpTo(InterpParts, n)}
    \cup {InterpExample}

InitInterp == InitWith(InterpInputs(MaxInterpParts))

SpecInterp == InitInterp /\ [][Next]_vars

InitExpr == InitWith(ExprInputs(MaxOps))

InitTop == InitWith(TopInputs(MaxTopBody))

SpecTop == InitTop /\ [][Next]_vars

InitMatch == InitWith(MatchInputs(MaxArms))

InitStmt == InitWith(UseInputs(MaxUseBody) \cup StmtInputs(MaxStmtBody))

Init ==
    InitWith(ExprInputs(MaxOps) \cup MatchInputs(MaxArms) \cup UseInputs(MaxUseBody)
             \cup StmtInputs(MaxStmtBody))

SpecExpr == InitExpr /\ [][Next]_vars

SpecMatch == InitMatch /\ [][Next]_vars

SpecStmt == InitStmt /\ [][Next]_vars

Spec == Init /\ [][Next]_vars

\* The recognizers left out of the model are never entered on these inputs.
InModel ==
    status = "running" /\ ~is_eof(tokens, gather_comments(tokens, pos))
        /\ Kind(tokens, pos) \notin TagKinds
    => top_level_statement(tokens, gather_comments(tokens, pos)).st # "unmodelled"

\* ------------------------------------------------------------------------
\* Properties
\* ------------------------------------------------------------------------

Returned == status # "running"

IsOperand(tok) == tok.kind \in {"Variable", "LiteralInteger"}

OperandNode(tok) ==
    IF tok.kind = "Variable"
    THEN [t |-> "Variable", name |-> tok.v]
    ELSE [t |-> "LiteralInteger", i |-> tok.v]

BinaryNode(op, l, r) ==
    IF op = "Coalesce"
    THEN [t |-> "Coalesce", lhs |-> l, rhs |-> r]
    ELSE [t |-> "Infix", lhs |-> l, op |-> op, rhs |-> r]

ExpressionStatement(e) == [t |-> "Expression", expr |-> e]

KindsOf(toks) == [i \in 1..Len(toks) |-> toks[i].kind]

\* <?php a op1 b op2 c ;
IsBinaryChain2 ==
    /\ Len(tokens) = 8
    /\ tokens[1].kind = "OpenTag"
    /\ IsOperand(tokens[2]) /\ IsOperand(tokens[4]) /\ IsOperand(tokens[6])
    /\ tokens[7].kind = "SemiColon"
    /\ tokens[8].kind = "Eof"

\* <?php a ? 9 : b ? 9 : c ;
IsTernaryChain2 ==
    /\ Len(tokens) = 12
    /\ KindsOf(tokens) = <<"OpenTag", tokens[2].kind, "Question", "LiteralInteger", "Colon",
                           tokens[6].kind, "Question", "LiteralInteger", "Colon",
                           tokens[10].kind, "SemiColon", "Eof">>
    /\ IsOperand(tokens[2]) /\ IsOperand(tokens[6]) /\ IsOperand(tokens[10])

SameClass(classes, a, b) == \E c \in classes : a \in c /\ b \in c

RightAssocClasses == {{"Pow"}, {"Coalesce"}, AssignmentOps}

LeftAssocClasses ==
    {{"Asterisk", "Slash", "Percent"}, {"Plus", "Minus"}, {"LeftShift", "RightShift"},
     {"Dot"}, {"Ampersand"}, {"Pipe"}, {"Caret"}, {"BooleanAnd"}, {"BooleanOr"},
     {"LogicalAnd"}, {"LogicalOr"}, {"LogicalXor"}, {"Instanceof"}}

EqualityOps == {"DoubleEquals", "BangEquals", "TripleEquals", "BangDoubleEquals", "AngledLeftRight"}

OrderingOps == {"LessThan", "LessThanEquals", "GreaterThan", "GreaterThanEquals"}

\* C1: `$a = x + y * z;` parses to Infix(=, $a, Infix(+, x, Infix(*, y, z))):
\* the multiplication nests below the addition and both below the assignment.
C1_AssignAddMulNesting ==
    ( /\ Returned
      /\ KindsOf(tokens) = <<"OpenTag", "Variable", "Equals", "LiteralInteger", "Plus",
                             "LiteralInteger", "Asterisk", "LiteralInteger", "SemiColon", "Eof">> )
    => /\ status = "ok"
       /\ ast = << ExpressionStatement(
                     BinaryNode("Equals", OperandNode(tokens[2]),
                        BinaryNode("Plus", OperandNode(tokens[4]),
                           BinaryNode("Asterisk", OperandNode(tokens[6]),
                                      OperandNode(tokens[8]))))) >>

\* C2: a chain `a op1 b op2 c` of two operators of one right-associative
\* class (`**`, `??`, the assignment operators) parses to op1(a, op2(b, c)).
C2_RightAssociativeChain ==
    (Returned /\ IsBinaryChain2 /\ SameClass(RightAssocClasses, tokens[3].kind, tokens[5].kind))
    => /\ status = "ok"
       /\ ast = << ExpressionStatement(
                     BinaryNode(tokens[3].kind, OperandNode(tokens[2]),
                        BinaryNode(tokens[5].kind, OperandNode(tokens[4]),
                                   OperandNode(tokens[6])))) >>

\* C3: a chain `a op1 b op2 c` of two operators of one left-associative
\* class parses to op2(op1(a, b), c): the right operand of op1 stops at op2.
C3_LeftAssociativeChain ==
    (Returned /\ IsBinaryChain2 /\ SameClass(LeftAssocClasses, tokens[3].kind, tokens[5].kind))
    => /\ status = "ok"
       /\ ast = << ExpressionStatement(
                     BinaryNode(tokens[5].kind,
                        BinaryNode(tokens[3].kind, OperandNode(tokens[2]),
                                   OperandNode(tokens[4])),
                        OperandNode(tokens[6]))) >>

\* C4: chaining two operators of one non-associative class (ternary, the
\* equality family, the ordering family) fails with UnexpectedToken carrying
\* the text and span of the second operator, which is left unconsumed.
C4_NonAssociativeChainRejected ==
    /\ (Returned /\ IsBinaryChain2
          /\ SameClass({EqualityOps, OrderingOps}, tokens[3].kind, tokens[5].kind))
       => /\ status = "err"
          /\ error = [e |-> "UnexpectedToken", text |-> tokens[5].kind, span |-> 5]
          /\ pos = 5
    /\ (Returned /\ IsTernaryChain2)
       => /\ status = "err"
          /\ error = [e |-> "UnexpectedToken", text |-> "Question", span |-> 7]
          /\ pos = 7

\* -- match expressions: in the inputs of SpecMatch every condition is an
\* integer literal and every body a string literal, so the arms can be read
\* off the tokens.

IsArmHead(j) ==
    \/ tokens[j - 1].kind = "LeftBrace"
    \/ tokens[j - 1].kind = "Comma" /\ tokens[j - 2].kind = "LiteralString"

DefaultHeads == {j \in 3..Len(tokens) : tokens[j].kind = "Default" /\ IsArmHead(j)}

\* arms written without any condition: `=> body`
EmptyHeads == {j \in 3..Len(tokens) : tokens[j].kind = "DoubleArrow" /\ IsArmHead(j)}

SecondDefault ==
    CHOOSE j \in DefaultHeads : Cardinality({k \in DefaultHeads : k < j}) = 1

CountKind(k) == Cardinality({j \in 1..Len(tokens) : tokens[j].kind = k})

IsMatchStatement(s) == s.t = "Expression" /\ s.expr.t = "Match"

\* C5: a match has at most one default arm: a `default` met at the head of
\* an arm after a default arm has been recorded fails with
\* MatchExpressionWithMultipleDefaultArms at the span of that token, and a
\* returned Match holds the one default arm that was written, if any.
C5_SingleDefaultArm ==
    /\ ( /\ Returned
         /\ Cardinality(DefaultHeads) >= 2
         /\ \A j \in EmptyHeads : j > SecondDefault )
       => /\ status = "err"
          /\ error = MatchExpressionWithMultipleDefaultArms(SecondDefault)
          /\ pos = SecondDefault
    /\ \A i \in 1..Len(ast) :
          IsMatchStatement(ast[i])
          => /\ Cardinality(DefaultHeads) <= 1
             /\ (ast[i].expr.default.t = "DefaultMatchArm") = (Cardinality(DefaultHeads) = 1)

\* a second default arm, with a conditional arm between the two, was rejected
C5_Witness ==
    /\ status = "err"
    /\ error.e = "MatchExpressionWithMultipleDefaultArms"
    /\ \E j \in 1..error.span : tokens[j].kind = "LiteralInteger"

RECURSIVE SumLen(_)
SumLen(arms) == IF arms = <<>> THEN 0 ELSE Len(Head(arms).conditions) + SumLen(Tail(arms))

C6_Example == MatchTokens(<<"two", "default">>, TRUE)

\* C6: every recorded conditional arm has a non-empty condition list; a
\* trailing comma after the last condition and after each arm is accepted,
\* so a well-formed match body with at most one default arm parses to a
\* Match holding every arm and every condition written; and
\* `match($x) { 1, 2 => "a", default => "b", }` gives one arm [1, 2] => "a"
\* and the default body "b".
C6_MatchArms ==
    /\ \A i \in 1..Len(ast) :
          IsMatchStatement(ast[i])
          => \A k \in 1..Len(ast[i].expr.arms) : ast[i].expr.arms[k].conditions # <<>>
    /\ (Returned /\ Cardinality(DefaultHeads) <= 1 /\ EmptyHeads = {})
       => /\ status = "ok"
          /\ Len(ast) = 1
          /\ IsMatchStatement(ast[1])
          /\ Len(ast[1].expr.arms) + Cardinality(DefaultHeads) = CountKind("DoubleArrow")
          /\ SumLen(ast[1].expr.arms) = CountKind("LiteralInteger")
    /\ (Returned /\ tokens = C6_Example)
       => ast = << ExpressionStatement(
                     [t |-> "Match",
                      condition |-> [t |-> "Variable", name |-> "x"],
                      default |-> [t |-> "DefaultMatchArm",
                                   body |-> [t |-> "LiteralString", value |-> "b"]],
                      arms |-> << [conditions |-> << [t |-> "LiteralInteger", i |-> "1"],
                                                     [t |-> "LiteralInteger", i |-> "2"] >>,
                                   body |-> [t |-> "LiteralString", value |-> "a"]] >>]) >>

\* commas before `=>` and before `}` were accepted in a returned Match
C6_Witness ==
    /\ status = "ok"
    /\ Len(ast) = 1
    /\ IsMatchStatement(ast[1])
    /\ \E k \in 1..Len(ast[1].expr.arms) : Len(ast[1].expr.arms[k].conditions) = 2
    /\ \E j \in 2..Len(tokens) :
          tokens[j].kind = "DoubleArrow" /\ tokens[j - 1].kind = "Comma"
    /\ \E j \in 2..Len(tokens) :
          tokens[j].kind = "RightBrace" /\ tokens[j - 1].kind = "Comma"

\* -- statements

NameKinds == {"Identifier", "QualifiedIdentifier", "FullyQualifiedIdentifier"}

\* C7: every Use, GroupUse, Global and Static statement of a returned
\* program has a non-empty items list.
C7_ItemsNonEmpty ==
    status = "ok"
    => \A i \in 1..Len(ast) :
          /\ ast[i].t \in {"Use", "GroupUse"} => ast[i].uses # <<>>
          /\ ast[i].t \in {"Global", "Static"} => ast[i].vars # <<>>

\* C8: no Use statement is returned for a non-group `use` in which a comma
\* is followed by something that is not a name (`;`, Eof, ...).
C8_UseDanglingCommaRejected ==
    status = "ok"
    => \A i \in 1..Len(ast) :
       ast[i].t = "Use"
       => ~\E j \in starts[i]..(ends[i] - 1) :
              tokens[j].kind = "Comma" /\ Kind(tokens, j + 1) \notin NameKinds

\* C9: a Return statement has value none only when the token right after
\* `return` is `;`.
C9_ReturnNoneOnlyBeforeSemicolon ==
    \A i \in 1..Len(ast) :
       (ast[i].t = "Return" /\ ast[i].value.t = "None")
       => Kind(tokens, starts[i] + 1) = "SemiColon"

\* C10: once a nested recognizer has returned an error, parse has returned
\* Err with that same error: it is neither dropped nor parsed past.
C10_ErrorsPropagate ==
    raised # <<>> => (status = "err" /\ error = raised[1])

\* C11: `self` and `static` (not followed by function / fn) without class
\* scope, and `parent` without parent scope, make expression fail with
\* CannotFindTypeInCurrentScope carrying the token's text and span, the
\* cursor staying on the token; no Self_, Static or Parent node is built.
ScopeKeyword(toks, p) ==
    \/ Kind(toks, p) = "Self_" /\ ~has_class_scope
    \/ Kind(toks, p) = "Static" /\ Kind(toks, p + 1) \notin {"Function", "Fn"}
          /\ ~has_class_scope
    \/ Kind(toks, p) = "Parent" /\ ~has_class_parent_scope

C11_ScopeKeywordRejected ==
    /\ \A p \in 1..Len(tokens) :
          ScopeKeyword(tokens, p)
          => \A precedence \in {"Lowest", "Assignment", "IncDec"} :
                expression(tokens, p, precedence)
                   = Err(p, [e |-> "CannotFindTypeInCurrentScope",
                             text |-> Kind(tokens, p), span |-> p])
    /\ status = "err" /\ error.e = "CannotFindTypeInCurrentScope"
          => pos = error.span /\ error.text = Kind(tokens, pos)
    /\ \A i \in 1..Len(ast) :
          ast[i].t = "Expression" => ast[i].expr.t \notin {"Self_", "Static", "Parent"}

C11_Witness ==
    /\ status = "err"
    /\ error.e = "CannotFindTypeInCurrentScope"
    /\ Kind(tokens, pos) = "Parent"
    /\ pos > 2

\* C12: a token sequence of tags only returns Ok with an empty program, and
\* `<?php return;` returns exactly one statement, Return{value: none}.
TagsOnly(toks) == \A i \in 1..(Len(toks) - 1) : toks[i].kind \in {"OpenTag", "CloseTag"}

C12_EmptyPrograms ==
    /\ Returned /\ TagsOnly(tokens) => status = "ok" /\ ast = <<>>
    /\ Returned /\ tokens = Program(<<Tok("Return"), Tok("SemiColon")>>)
          => status = "ok" /\ ast = <<[t |-> "Return", value |-> None]>>

C12_Witness ==
    /\ status = "ok"
    /\ tokens = Program(<<Tok("CloseTag")>>)

\* C13: parse terminates with Ok(program) or Err(error): every iteration of
\* the top-level loop consumes a token or returns, a running parse can
\* always take its next step, and no panic branch is reached.
CanStep ==
    \/ Kind(tokens, pos) \in TagKinds
    \/ is_eof(tokens, gather_comments(tokens, pos))
    \/ top_level_statement(tokens, gather_comments(tokens, pos)).st
          \in {"ok", "err", "panic", "unmodelled"}

C13_TerminatesWithoutPanic ==
    /\ [][pos' > pos \/ status' # "running"]_vars
    /\ [](status = "running" => CanStep)
    /\ [](status # "panic")

\* C14: the cursor never moves back, and the statements of the program are
\* in increasing order of the position of their first token.
C14_SourceOrder ==
    /\ [][pos' >= pos]_vars
    /\ [](\A i, j \in 1..Len(starts) : i < j => starts[i] < starts[j])

C14_Witness ==
    /\ status = "ok"
    /\ Len(ast) >= 3

\* C15: every comment token standing outside the top-level statements is a
\* Comment statement of the returned program.
TopLevelComment(p) ==
    /\ Kind(tokens, p) \in CommentKinds
    /\ \A i \in 1..Len(starts) : ~(starts[i] <= p /\ p < ends[i])

C15_CommentsSurfaced ==
    status = "ok"
    => \A p \in 1..Len(tokens) :
          TopLevelComment(p)
          => \E i \in 1..Len(ast) : ast[i].t = "Comment" /\ ast[i].start = p

\* C16: an identifier operation that succeeds advances the cursor by
\* exactly one token, and one that fails leaves the cursor where it was.
C16_IdentOpsAdvanceOnSuccess ==
    /\ [][status' = "running" => pos' = pos + 1]_vars
    /\ [][status' = "err" => pos' = pos]_vars
    /\ [](\A i \in 1..Len(ast) : ends[i] = starts[i] + 1)

C16_Witness ==
    /\ status = "err"
    /\ Len(ast) = 2
    /\ ast[1].t = "type_with_static" /\ ast[1].value = "static"
    /\ ast[2].t = "ident_maybe_reserved" /\ ast[2].value = "Namespace"

\* C17: once attribute groups are gathered and the current token cannot
\* start an attributable item, statement and expression both fail with
\* ExpectedItemDefinitionAfterAttributes at the span of that token, which is
\* not consumed.
ItemStartKinds ==
    {"Abstract", "Readonly", "Final", "Class", "Interface", "Trait", "Enum", "Function",
     "Fn", "Static", "New"}

HangingError(p) ==
    Err(p, [e |-> "ExpectedItemDefinitionAfterAttributes", text |-> "", span |-> p])

C17_HangingAttributesRejected ==
    /\ \A p \in 1..Len(tokens) :
       \A g \in {gather_attributes(tokens, p)} :
          g.st = "ok" /\ g.val /\ Kind(tokens, g.pos) \notin ItemStartKinds
          => /\ statement(tokens, p) = HangingError(g.pos)
             /\ expression(tokens, p, "Lowest") = HangingError(g.pos)
    /\ status = "err" /\ error.e = "ExpectedItemDefinitionAfterAttributes"
          => pos = error.span

C17_Witness ==
    /\ status = "err"
    /\ error.e = "ExpectedItemDefinitionAfterAttributes"
    /\ Kind(tokens, 2) = "Echo"
    /\ Kind(tokens, pos) = "LiteralInteger"

\* C18 (as claimed): after attribute groups, expression accepts exactly the
\* continuations anonymous function, arrow function and anonymous class,
\* and rejects every other one with ExpectedItemDefinitionAfterAttributes.
ClosureStart(toks, p) ==
    \/ Kind(toks, p) \in {"Function", "Fn"}
    \/ Kind(toks, p) = "Static" /\ Kind(toks, p + 1) \in {"Function", "Fn"}

AnonymousClassStart(toks, p) == Kind(toks, p) = "New" /\ Kind(toks, p + 1) = "Class"

C18_AttributedContinuations ==
    \A p \in 1..Len(tokens) :
    \A g \in {gather_attributes(tokens, p)} :
       g.st = "ok" /\ g.val
       => (expression(tokens, p, "Lowest") = HangingError(g.pos)
             <=> ~(ClosureStart(tokens, g.pos) \/ AnonymousClassStart(tokens, g.pos)))

\* C18 (amended): after attribute groups, expression accepts exactly the
\* continuations anonymous function and arrow function (each optionally
\* static); every other one, `new class` included, is rejected with
\* ExpectedItemDefinitionAfterAttributes.
C18_AttributedClosuresOnly ==
    \A p \in 1..Len(tokens) :
    \A g \in {gather_attributes(tokens, p)} :
       g.st = "ok" /\ g.val
       => (expression(tokens, p, "Lowest") = HangingError(g.pos)
             <=> ~ClosureStart(tokens, g.pos))

C18_Witness ==
    /\ status = "err"
    /\ error.e = "ExpectedItemDefinitionAfterAttributes"
    /\ Kind(tokens, 2) = "Echo"
    /\ AnonymousClassStart(tokens, pos)

\* C19: an item of `array(...)` that combines `...` with `key => value` is
\* rejected: no array of a returned program holds an item with unpack = true
\* and a key.
ArrayStatement(s) == s.t = "Expression" /\ s.expr.t = "Array"

C19_SpreadWithKeyRejected ==
    status = "ok"
    => \A s \in 1..Len(ast) :
          ArrayStatement(ast[s])
          => \A i \in 1..Len(ast[s].expr.items) :
                ~(ast[s].expr.items[i].unpack /\ ast[s].expr.items[i].key.t # "None")

\* C20: an item of `array(...)` whose first expression has a leading `&` and
\* is followed by `=>` is rejected with UnexpectedToken("&") at the span of
\* that `&`; a `&` after `=>` is accepted and gives by_ref = true.
ItemStart(p) == Kind(tokens, p - 1) \in {"LeftParen", "Comma"} /\ Kind(tokens, p) # "RightParen"

PastSpread(p) == IF Kind(tokens, p) = "Ellipsis" THEN p + 1 ELSE p

C20_RefBeforeArrow(p, q) ==
    \A first \in {expression(tokens, q + 1, "Lowest")} :
       Kind(tokens, q) = "Ampersand" /\ first.st = "ok"
          /\ Kind(tokens, first.pos) = "DoubleArrow"
       => /\ ArrayItem(tokens, p, q).st = "err"
          /\ ArrayItem(tokens, p, q).err
                = [e |-> "UnexpectedToken", text |-> "Ampersand", span |-> q]

C20_RefAfterArrow(p, q) ==
    \A first \in {expression(tokens, q, "Lowest")} :
       Kind(tokens, q) # "Ampersand" /\ first.st = "ok"
          /\ Kind(tokens, first.pos) = "DoubleArrow"
          /\ Kind(tokens, first.pos + 1) = "Ampersand"
          /\ expression(tokens, first.pos + 2, "Lowest").st = "ok"
       => /\ ArrayItem(tokens, p, q).st = "ok"
          /\ ArrayItem(tokens, p, q).val.by_ref
          /\ ArrayItem(tokens, p, q).val.key = first.val

C20_ByRefAroundArrow ==
    /\ \A p \in 2..Len(tokens) :
          ItemStart(p)
          => C20_RefBeforeArrow(p, PastSpread(p)) /\ C20_RefAfterArrow(p, PastSpread(p))
    /\ status = "err" /\ error.e = "UnexpectedToken" /\ error.text = "Ampersand"
          => Kind(tokens, error.span) = "Ampersand"

C20_Witness ==
    /\ status = "err"
    /\ error.e = "UnexpectedToken" /\ error.text = "Ampersand"
    /\ Kind(tokens, error.span) = "Ampersand"
    /\ Kind(tokens, error.span + 2) = "DoubleArrow"
    /\ \E p \in 1..error.span :
          Kind(tokens, p) = "DoubleArrow" /\ Kind(tokens, p + 1) = "Ampersand"

\* C21: `yield from <expr>` followed by `=>` is rejected wherever it is
\* written (statement, array item); after a plain `yield`, `=>` makes the
\* first expression the key and the value is parsed at Yield precedence.
YieldFromArrow(p) ==
    /\ Kind(tokens, p) = "Yield" /\ Kind(tokens, p + 1) = "From"
    /\ IsOperand(Cur(tokens, p + 2)) /\ Kind(tokens, p + 3) = "DoubleArrow"

YieldKeyValue(p) ==
    /\ Kind(tokens, p) = "Yield"
    /\ IsOperand(Cur(tokens, p + 1)) /\ Kind(tokens, p + 2) = "DoubleArrow"
    /\ IsOperand(Cur(tokens, p + 3)) /\ Kind(tokens, p + 4) \in {"SemiColon", "RightParen"}

C21_YieldFromArrowRejected ==
    /\ status = "ok" => \A p \in 1..Len(tokens) : ~YieldFromArrow(p)
    /\ \A p \in 1..Len(tokens) :
          YieldKeyValue(p)
          => expression(tokens, p, "Lowest")
                = Ok(p + 4, [t |-> "Yield", key |-> OperandNode(tokens[p + 1]),
                             value |-> OperandNode(tokens[p + 3])])

\* C22: a trailing comma after the last item between the braces of a group
\* use is accepted, and the GroupUse lists exactly the items written, in
\* order, each with its alias if it has one.
RECURSIVE WrittenUses(_, _, _)
WrittenUses(toks, p, end) ==
    IF p >= end THEN <<>>
    ELSE IF toks[p].kind \in NameKinds /\ toks[p - 1].kind # "As"
    THEN <<[name |-> toks[p].v,
            alias |-> IF Kind(toks, p + 1) = "As" THEN Cur(toks, p + 2).v ELSE ""]>>
         \o WrittenUses(toks, p + 1, end)
    ELSE WrittenUses(toks, p + 1, end)

RECURSIVE GroupBodyWellFormed(_, _)
GroupBodyWellFormed(toks, p) ==
    /\ Kind(toks, p) \in NameKinds
    /\ \E q \in {IF Kind(toks, p + 1) = "As" /\ Kind(toks, p + 2) = "Identifier"
                  THEN p + 3 ELSE p + 1} :
          \/ Kind(toks, q) = "RightBrace"
          \/ Kind(toks, q) = "Comma" /\ Kind(toks, q + 1) = "RightBrace"
          \/ Kind(toks, q) = "Comma" /\ GroupBodyWellFormed(toks, q + 1)

LeftBraceAt(toks, p) ==
    Kind(toks, p) = "LeftBrace" /\ \A j \in 1..(p - 1) : toks[j].kind # "LeftBrace"

C22_GroupUseItems ==
    /\ status = "ok"
       => \A i \in 1..Len(ast) :
             ast[i].t = "GroupUse"
             => \A lb \in starts[i]..ends[i] :
                   LeftBraceAt(tokens, lb)
                   => ast[i].uses = WrittenUses(tokens, lb + 1, ends[i])
    /\ Returned
       => \A lb \in 1..Len(tokens) :
             LeftBraceAt(tokens, lb) /\ Kind(tokens, 2) = "Use"
                /\ GroupBodyWellFormed(tokens, lb + 1)
             => status = "ok" /\ Len(ast) = 1 /\ ast[1].t = "GroupUse"

C22_Witness ==
    /\ status = "ok"
    /\ Len(ast) = 1 /\ ast[1].t = "GroupUse"
    /\ ast[1].uses = <<[name |-> "B", alias |-> ""], [name |-> "A", alias |-> ""]>>
    /\ \E p \in 1..Len(tokens) : Kind(tokens, p) = "Comma" /\ Kind(tokens, p + 1) = "RightBrace"

\* C23: the dedent with indentation character c and amount N removes from
\* each Const part of a heredoc, and from each line of a nowdoc, exactly
\* min(N, k) leading bytes, k being the number of leading bytes equal to c;
\* Expr parts, the number and order of the parts and of the lines stay, and
\* nothing changes when the terminator has no indentation character.
RECURSIVE LeadingCount(_, _)
LeadingCount(bytes, c) ==
    IF bytes # <<>> /\ Head(bytes) = c THEN 1 + LeadingCount(Tail(bytes), c) ELSE 0

Min(a, b) == IF a < b THEN a ELSE b

Stripped(bytes, indent) ==
    IF indent.indentation_type = "None" THEN bytes
    ELSE SubSeq(bytes,
                Min(indent.indentation_amount,
                    LeadingCount(bytes, IndentByte(indent.indentation_type))) + 1,
                Len(bytes))

IsWrittenPart(tok) == tok.kind = "StringPart" => tok.v # <<>>

\* The parts written between the StartDocString and the EndDocString.
WrittenParts(toks) == SelectSeq(SubSeq(toks, 3, Len(toks) - 3), IsWrittenPart)

DocStatement(kind) ==
    /\ status = "ok"
    /\ Kind(tokens, 2) = "StartDocString" /\ tokens[2].v = kind
    /\ Len(ast) = 1 /\ ast[1].t = "Expression" /\ ast[1].expr.t = kind

DocIndentation == tokens[Len(tokens) - 2].v

C23_Dedent ==
    /\ DocStatement("Heredoc")
       => /\ Len(ast[1].expr.parts) = Len(WrittenParts(tokens))
          /\ \A i \in 1..Len(ast[1].expr.parts) :
                IF WrittenParts(tokens)[i].kind = "StringPart"
                THEN ast[1].expr.parts[i] =
                        [t |-> "Const",
                         bytes |-> Stripped(WrittenParts(tokens)[i].v, DocIndentation)]
                ELSE ast[1].expr.parts[i] =
                        ExprPart([t |-> "Variable", name |-> WrittenParts(tokens)[i].v])
    /\ DocStatement("Nowdoc")
       => /\ Len(SplitLines(ast[1].expr.value, <<>>)) = Len(SplitLines(tokens[3].v, <<>>))
          /\ \A i \in 1..Len(SplitLines(tokens[3].v, <<>>)) :
                SplitLines(ast[1].expr.value, <<>>)[i] =
                   Stripped(SplitLines(tokens[3].v, <<>>)[i], DocIndentation)

C23_Witness ==
    /\ DocStatement("Heredoc")
    /\ DocIndentation = Indentation("Space", 1)
    /\ tokens[3] = TokV("StringPart", <<" ", " ">>)
    /\ ast[1].expr.parts = <<[t |-> "Const", bytes |-> <<" ">>],
                             ExprPart([t |-> "Variable", name |-> "a"])>>

\* The statements that hold a string made of parts.
HasParts(s) ==
    s.t = "Expression" /\ s.expr.t \in {"InterpolatedString", "Heredoc", "ShellExec"}

\* C24: in the simple syntax a `$variable` part takes at most one postfix,
\* `[int]`, `[-int]`, `[ident]`, `[$var]`, `->ident` or `?->ident`, and a
\* further `[` or `->` is not attached to the part; any other token inside
\* `[...]` is an error.  "hello $name[0] {$obj->x}" gives the parts
\* Const("hello "), Expr(ArrayIndex($name, 0)), Const(" "),
\* Expr(PropertyFetch($obj, x)).
SimpleIndexNode(n) ==
    \/ n.t \in {"LiteralInteger", "LiteralString", "Variable"}
    \/ n.t = "Negate" /\ n.value.t = "LiteralInteger"

SimplePart(e) ==
    \/ e.t = "Variable"
    \/ e.t = "ArrayIndex" /\ e.array.t = "Variable" /\ SimpleIndexNode(e.index)
    \/ e.t \in {"PropertyFetch", "NullsafePropertyFetch"}
          /\ e.target.t = "Variable" /\ e.property.t = "Identifier"

ValidIndexAt(q) ==
    \/ Kind(tokens, q) \in {"LiteralInteger", "Identifier", "Variable"}
    \/ Kind(tokens, q) = "Minus" /\ Kind(tokens, q + 1) = "LiteralInteger"

BraceFree == \A p \in 1..Len(tokens) : tokens[p].kind # "LeftBrace"

ExampleParts ==
    <<[t |-> "Const", bytes |-> Hello],
      ExprPart([t |-> "ArrayIndex", array |-> [t |-> "Variable", name |-> "name"],
                index |-> [t |-> "LiteralInteger", i |-> "0"]]),
      [t |-> "Const", bytes |-> <<" ">>],
      ExprPart([t |-> "PropertyFetch", target |-> [t |-> "Variable", name |-> "obj"],
                property |-> [t |-> "Identifier", name |-> "x"]])>>

ExampleStatement ==
    ExpressionStatement(infix([t |-> "Variable", name |-> "s"], "Equals",
                              [t |-> "InterpolatedString", parts |-> ExampleParts], FALSE))

C24_SimpleInterpolation ==
    /\ status = "ok" /\ BraceFree
       => \A i \in 1..Len(ast) :
             HasParts(ast[i])
             => \A j \in 1..Len(ast[i].expr.parts) :
                   ast[i].expr.parts[j].t = "Expr" => SimplePart(ast[i].expr.parts[j].e)
    /\ Returned /\ BraceFree
       /\ (\E p \in 1..Len(tokens) :
              Kind(tokens, p) = "Variable" /\ Kind(tokens, p + 1) = "LeftBracket"
                 /\ ~ValidIndexAt(p + 2))
       => status = "err"
    /\ Returned /\ tokens = InterpExample => status = "ok" /\ ast = <<ExampleStatement>>

C24_Witness ==
    /\ status = "ok"
    /\ tokens = InterpExample
    /\ ast = <<ExampleStatement>>

\* C25: no InterpolatedString, Heredoc or ShellExec node of the returned
\* program has a Const part of zero bytes, heredocs with an indentation to
\* strip included.
C25_NoEmptyConst ==
    status = "ok"
    => \A i \in 1..Len(ast) :
          HasParts(ast[i])
          => \A j \in 1..Len(ast[i].expr.parts) :
                ast[i].expr.parts[j].t = "Const" => Len(ast[i].expr.parts[j].bytes) > 0

\* C26: on `function` followed by `&`, statement looks at the token after
\* the `&` without moving the cursor: the statement is the by-reference
\* closure as an expression statement when that token is not an identifier
\* and the by-reference function declaration when it is, every token of the
\* statement being consumed once, and the same with and without an
\* attribute group before it.
FunctionAt == IF Kind(tokens, 2) = "Attribute" THEN 5 ELSE 2

FunctionAmp ==
    Kind(tokens, FunctionAt) = "Function" /\ Kind(tokens, FunctionAt + 1) = "Ampersand"

WithoutAttributes == <<tokens[1]>> \o SubSeq(tokens, FunctionAt, Len(tokens))

DeclarationWritten ==
    Kind(tokens, FunctionAt + 2) = "Identifier" /\ EmptySignature(tokens, FunctionAt + 3)

ClosureWritten ==
    EmptySignature(tokens, FunctionAt + 2) /\ Kind(tokens, FunctionAt + 6) = "SemiColon"

C26_FunctionAmpersand ==
    FunctionAmp
    => /\ Len(ast) >= 1
          => /\ IF Kind(tokens, FunctionAt + 2) = "Identifier"
                THEN ast[1] = [t |-> "Function", name |-> tokens[FunctionAt + 2].v,
                               by_ref |-> TRUE, params |-> <<>>, body |-> <<>>]
                ELSE ast[1] = [t |-> "Expression",
                               expr |-> [t |-> "Closure", by_ref |-> TRUE,
                                         params |-> <<>>, body |-> <<>>]]
             /\ starts[1] = 2 /\ ends[1] = FunctionAt + 7
       /\ Returned /\ (DeclarationWritten \/ ClosureWritten) => status = "ok"
       /\ \E with \in {statement(tokens, 2)} :
          \E without \in {statement(WithoutAttributes, 2)} :
             /\ with.st = without.st
             /\ with.val = without.val
             /\ with.pos = without.pos + (FunctionAt - 2)

C26_Witness ==
    /\ status = "ok"
    /\ Kind(tokens, 2) = "Attribute" /\ FunctionAmp /\ ClosureWritten
    /\ Len(ast) = 2
    /\ ast[1].t = "Expression" /\ ast[1].expr.t = "Closure"

\* C27: a `self`, `static` or `parent` that passed its scope check is
\* followed by `::`: the prefix phase returns a ConstFetch, StaticMethodCall
\* or StaticPropertyFetch whose target is Self_, Static or Parent, or an
\* error, and never the bare node.
C27_ScopeKeywordNeedsDoubleColon ==
    /\ status = "ok"
       => /\ Len(ast) = 1 /\ ast[1].in_scope
          /\ Kind(tokens, 2) = "DoubleColon"
          /\ ast[1].value.t \in {"ConstFetch", "StaticMethodCall", "StaticPropertyFetch"}
          /\ ast[1].value.target = [t |-> tokens[1].kind]
    /\ Returned /\ Kind(tokens, 2) # "DoubleColon" => status = "err"

C27_Witness ==
    /\ status = "ok"
    /\ tokens[1].kind = "Parent"
    /\ ast[1].value = [t |-> "StaticPropertyFetch", target |-> [t |-> "Parent"],
                        property |-> [t |-> "Variable", name |-> "v"]]

\* C28: after `::`, an identifier (`class`, which gives the identifier
\* "class", and reserved words included) not followed by `(` gives a
\* ConstFetch; a member followed by `(`, or a `{expr}` member, gives a
\* StaticMethodCall and fails without an argument list; `$var` or a `$`
\* dynamic member not followed by `(` gives a StaticPropertyFetch; any other
\* token after `::` is an error.
TargetNode(tok) ==
    IF tok.kind = "Variable" THEN [t |-> "Variable", name |-> tok.v]
    ELSE [t |-> "Identifier", name |-> tok.v]

\* The member written at index 4, as [node, end] (end: the index after it).
IdentifierMember ==
    CASE Kind(tokens, 4) = "Identifier" -> [t |-> "Identifier", name |-> tokens[4].v]
      [] Kind(tokens, 4) = "Class" -> [t |-> "Identifier", name |-> "class"]
      [] Kind(tokens, 4) \in ReservedKinds -> [t |-> "Identifier", name |-> Kind(tokens, 4)]
      [] OTHER -> None

VariableMember ==
    CASE Kind(tokens, 4) = "Variable" ->
            [node |-> [t |-> "Variable", name |-> tokens[4].v], end |-> 5]
      [] Kind(tokens, 4) = "Dollar" /\ Kind(tokens, 5) = "Variable" ->
            [node |-> [t |-> "DynamicVariable",
                       name |-> [t |-> "Variable", name |-> tokens[5].v]], end |-> 6]
      [] OTHER -> [node |-> None, end |-> 0]

BraceMember ==
    Kind(tokens, 4) = "LeftBrace" /\ Kind(tokens, 5) = "Variable"
       /\ Kind(tokens, 6) = "RightBrace"

StaticAccessAt3 == postfix(tokens, 3, TargetNode(tokens[2]), "DoubleColon")

\* r is what the `::` rule returns, args what args_list returns after the
\* member (at index q).
MethodCallOrError(r, args, method) ==
    IF args.st = "ok"
    THEN r = Ok(args.pos, [t |-> "StaticMethodCall", target |-> TargetNode(tokens[2]),
                           method |-> method, args |-> args.val])
    ELSE r.st = "err"

StaticAccessClassified(r) ==
    /\ IdentifierMember # None /\ Kind(tokens, 5) # "LeftParen"
       => r = Ok(5, [t |-> "ConstFetch", target |-> TargetNode(tokens[2]),
                     constant |-> IdentifierMember])
    /\ IdentifierMember # None /\ Kind(tokens, 5) = "LeftParen"
       => MethodCallOrError(r, args_list(tokens, 5), IdentifierMember)
    /\ VariableMember.end # 0 /\ Kind(tokens, VariableMember.end) # "LeftParen"
       => r = Ok(VariableMember.end,
                 [t |-> "StaticPropertyFetch", target |-> TargetNode(tokens[2]),
                  property |-> VariableMember.node])
    /\ VariableMember.end # 0 /\ Kind(tokens, VariableMember.end) = "LeftParen"
       => MethodCallOrError(r, args_list(tokens, VariableMember.end), VariableMember.node)
    /\ BraceMember
       => MethodCallOrError(r, args_list(tokens, 7),
                            [t |-> "DynamicVariable",
                             name |-> [t |-> "Variable", name |-> tokens[5].v]])
    /\ IdentifierMember = None /\ VariableMember.end = 0 /\ ~BraceMember
       => r.st = "err"
    /\ Returned /\ r.st = "err" => status = "err"
    /\ Returned /\ r.st = "ok" /\ Kind(tokens, r.pos) = "SemiColon"
       => status = "ok" /\ ast = <<ExpressionStatement(r.val)>>

C28_StaticAccessClassified ==
    Returned /\ Kind(tokens, 3) = "DoubleColon" /\ Kind(tokens, 1) = "OpenTag"
    => \E r \in {StaticAccessAt3} : StaticAccessClassified(r)

C28_Witness ==
    /\ status = "ok"
    /\ Len(ast) = 1 /\ ast[1].t = "Expression"
    /\ ast[1].expr = [t |-> "StaticMethodCall",
                       target |-> [t |-> "Identifier", name |-> "A"],
                       method |-> [t |-> "Identifier", name |-> "class"],
                       args |-> <<[t |-> "LiteralInteger", i |-> "1"]>>]

\* C29: every token kind classified as infix or postfix has a precedence
\* class and a rule: the engine never looks a token up outside the domain of
\* Precedence::infix or Precedence::postfix and never reaches todo! or
\* unimplemented!.
C29_OperatorTablesComplete ==
    /\ status # "panic"
    /\ \A p \in 1..Len(tokens) :
          /\ is_infix(Kind(tokens, p)) /\ ~is_postfix(Kind(tokens, p))
             => Precedence_infix(Kind(tokens, p)) # "unimplemented"
          /\ is_postfix(Kind(tokens, p))
             => Precedence_postfix(Kind(tokens, p)) # "unimplemented"

\* C30: `new Name(args)` gives a New whose target is the identifier Name and
\* whose args are the list between the parentheses; the `(` is taken by the
\* `new` rule, not as a call on the target.
NewAt == IF Kind(tokens, 2) = "New" THEN 2 ELSE 4

NewWithArguments ==
    /\ Kind(tokens, NewAt) = "New"
    /\ Kind(tokens, NewAt + 1) \in NameKinds
    /\ Kind(tokens, NewAt + 2) = "LeftParen"
    /\ args_list(tokens, NewAt + 2).st = "ok"
    /\ Kind(tokens, args_list(tokens, NewAt + 2).pos) = "SemiColon"

NewExpected ==
    [t |-> "New",
     target |-> [t |-> "Identifier", name |-> tokens[NewAt + 1].v],
     args |-> args_list(tokens, NewAt + 2).val]

C30_NewTakesArguments ==
    Returned /\ NewWithArguments
    => /\ status = "ok"
       /\ Len(ast) = 1 /\ ast[1].t = "Expression"
       /\ IF NewAt = 2 THEN ast[1].expr = NewExpected
          ELSE ast[1].expr = infix(TargetNode(tokens[2]), "Equals", NewExpected, FALSE)

====
